---- MODULE Spec2Model ----
(***************************************************************************)
(* rlox: scanner -> parser -> resolver -> tree-walking interpreter.        *)
(*                                                                         *)
(* A source text is a sequence of lexemes (the scanner's unit of output;   *)
(* the lexeme "\n" is a line break).  Numbers are integers.  Shared        *)
(* Rc<RefCell<..>> objects (environments, functions, classes, instances)   *)
(* live in heaps indexed by handle; a handle is the Rc.                    *)
(***************************************************************************)
EXTENDS Integers, Sequences, FiniteSets, TLC

VARIABLES source, use_resolver, phase, tokens, statements, reported,
          resolver, interpreter, pc, had_error, had_runtime_error

vars == <<source, use_resolver, phase, tokens, statements, reported,
          resolver, interpreter, pc, had_error, had_runtime_error>>

None == <<>>
Some(x) == <<x>>
IsSome(o) == Len(o) > 0
\* `let x = v;`: Body(x), with v evaluated once
Let(v, Body(_)) == CHOOSE y \in {Body(x) : x \in {v}} : TRUE

Unwrap(o) == o[1]

(***************************************************************************)
(* scanner.rs                                                              *)
(***************************************************************************)
keywords ==
  [and |-> "And", break |-> "Break", class |-> "Class", else |-> "Else",
   false |-> "False", for |-> "For", fun |-> "Fun", if |-> "If",
   nil |-> "Nil", or |-> "Or", print |-> "Print", return |-> "Return",
   super |-> "Super", this |-> "This", true |-> "True", var |-> "Var",
   while |-> "While"]

symbols ==
  ("(" :> "LeftParen") @@ (")" :> "RightParen") @@ ("{" :> "LeftBrace") @@
  ("}" :> "RightBrace") @@ ("," :> "Comma") @@ ("." :> "Dot") @@
  ("-" :> "Minus") @@ ("+" :> "Plus") @@ (";" :> "Semicolon") @@
  ("*" :> "Star") @@ ("?" :> "QuestionMark") @@ (":" :> "Colon") @@
  ("!" :> "Bang") @@ ("!=" :> "BangEqual") @@ ("=" :> "Equal") @@
  ("==" :> "EqualEqual") @@ ("<" :> "Less") @@ ("<=" :> "LessEqual") @@
  (">" :> "Greater") @@ (">=" :> "GreaterEqual") @@ ("/" :> "Slash")

\* Number lexemes and the f64 each parses to (scanner.rs number()).
number_lexemes ==
  ("0" :> 0) @@ ("1" :> 1) @@ ("2" :> 2) @@ ("3" :> 3) @@ ("7" :> 7) @@
  ("10" :> 10) @@ ("11" :> 11)

\* String lexemes (with their quotes) and the value between the quotes
\* (scanner.rs string()).
string_lexemes ==
  ("\"bar\"" :> "bar") @@ ("\"baz\"" :> "baz") @@ ("\"in\"" :> "in") @@
  ("\"out\"" :> "out") @@ ("\"end\"" :> "end")

Literal(k, n, s) == [k |-> k, n |-> n, s |-> s]
NoLiteral == Literal("None", 0, "")

Token(token_type, lexeme, literal, line) ==
  [token_type |-> token_type, lexeme |-> lexeme, literal |-> literal,
   line |-> line]

\* The token one lexeme becomes.
ScanLexeme(g, line) ==
  IF g \in DOMAIN symbols THEN Token(symbols[g], g, NoLiteral, line)
  ELSE IF g \in DOMAIN number_lexemes
    THEN Token("Number", g, Literal("Number", number_lexemes[g], ""), line)
  ELSE IF g \in DOMAIN string_lexemes
    THEN Token("Str", string_lexemes[g],
               Literal("Str", 0, string_lexemes[g]), line)
  ELSE IF g \in DOMAIN keywords THEN Token(keywords[g], g, NoLiteral, line)
  ELSE Token("Identifier", g, NoLiteral, line)

\* the line a position of the source is on: `self.line += 1` at each '\n'
line_at(src, i) == 1 + Cardinality({j \in 1..(i - 1) : src[j] = "\n"})

\* graphemes that are no symbol, digit, letter, quote or white space
unexpected == {"@", "#"}

\* string lexemes whose closing quote is missing
unterminated == {"\"bar", "\"in"}

\* string(): an unterminated string runs to the end of the source; the
\* position scanning reaches the end of the source from
string_end(src) ==
  IF \E i \in 1..Len(src) : src[i] \in unterminated
    THEN CHOOSE i \in 1..Len(src) :
           /\ src[i] \in unterminated
           /\ \A j \in 1..(i - 1) : src[j] \notin unterminated
    ELSE Len(src) + 1

\* `panic!("Unexpected character ...")`: scan_tokens does not return
scan_panics(src) ==
  \E i \in 1..(string_end(src) - 1) : src[i] \in unexpected

\* what scan_tokens hands to error::report
scan_reports(src) ==
  IF string_end(src) <= Len(src) THEN "Unterminated string" ELSE ""

\* scan_tokens: one token per lexeme, in order, then Eof on the last line
scan_tokens(src) ==
  LET at == SelectSeq([i \in 1..(string_end(src) - 1) |-> i],
                      LAMBDA i : src[i] # "\n") IN
  [k \in 1..Len(at) |-> ScanLexeme(src[at[k]], line_at(src, at[k]))]
  \o <<Token("Eof", "", NoLiteral, line_at(src, Len(src) + 1))>>

(***************************************************************************)
(* parser.rs                                                               *)
(* A parse result is [ok, v, cur, err]: the node (or statement list), the  *)
(* parser's `current` after it (1-based), and the ParseError message.      *)
(***************************************************************************)
POk(v, cur) == [ok |-> TRUE, v |-> v, cur |-> cur, err |-> ""]
PErr(msg, cur) == [ok |-> FALSE, v |-> <<>>, cur |-> cur, err |-> msg]

peek(toks, cur) == toks[cur]
previous(toks, cur) == toks[cur - 1]
is_at_end(toks, cur) == peek(toks, cur).token_type = "Eof"
check(toks, cur, t) ==
  IF is_at_end(toks, cur) THEN FALSE ELSE peek(toks, cur).token_type = t
advance(toks, cur) == IF ~is_at_end(toks, cur) THEN cur + 1 ELSE cur
match_tokens(toks, cur, types) == \E t \in types : check(toks, cur, t)
consume(toks, cur, token_type, on_error_message) ==
  IF check(toks, cur, token_type)
    THEN POk(peek(toks, cur), advance(toks, cur))
    ELSE PErr(on_error_message, cur)

RECURSIVE synchronize_loop(_, _)
synchronize_loop(toks, cur) ==
  IF is_at_end(toks, cur) THEN cur
  ELSE IF previous(toks, cur).token_type = "Semicolon" THEN cur
  ELSE IF peek(toks, cur).token_type \in
            {"Class", "Fun", "Var", "For", "If", "While", "Print", "Return"}
    THEN cur
  ELSE synchronize_loop(toks, advance(toks, cur))

synchronize(toks, cur) == synchronize_loop(toks, advance(toks, cur))

RECURSIVE primary_expr(_, _), unary_expr(_, _), call_expr(_, _),
          call_loop(_, _), finish_call_expr(_, _, _), arguments_loop(_, _, _),
          operand(_, _, _), left_assoc(_, _, _, _, _),
          multiplication_expr(_, _), addition_expr(_, _),
          comparison_expr(_, _), equality_expr(_, _), and_expr(_, _),
          or_expr(_, _), ternary_expr(_, _), assignment_expr(_, _),
          expression_expr(_, _), lambda_expr(_, _), parameters_loop(_, _, _),
          declaration_stmt(_, _), _declaration_stmt(_, _),
          class_declaration_stmt(_, _), class_members_loop(_, _, _, _),
          class_member_stmt(_, _), statement_stmt(_, _), for_stmt(_, _),
          if_stmt(_, _), print_stmt(_, _), return_stmt(_, _),
          var_declaration_stmt(_, _), while_stmt(_, _),
          expression_stmt(_, _), function_stmt(_, _, _), function_rest(_, _),
          block_stmt(_, _), block_loop(_, _, _)

primary_expr(toks, cur) ==
  IF check(toks, cur, "Fun") THEN lambda_expr(toks, cur + 1)
  ELSE IF check(toks, cur, "False")
    THEN POk([t |-> "Literal", value |-> Literal("False", 0, "")], cur + 1)
  ELSE IF check(toks, cur, "True")
    THEN POk([t |-> "Literal", value |-> Literal("True", 0, "")], cur + 1)
  ELSE IF check(toks, cur, "Nil")
    THEN POk([t |-> "Literal", value |-> Literal("Nil", 0, "")], cur + 1)
  ELSE IF match_tokens(toks, cur, {"Number", "Str"})
    THEN POk([t |-> "Literal", value |-> peek(toks, cur).literal], cur + 1)
  ELSE IF check(toks, cur, "This")
    THEN POk([t |-> "This", keyword |-> peek(toks, cur)], cur + 1)
  ELSE IF check(toks, cur, "Identifier")
    THEN POk([t |-> "Variable", name |-> peek(toks, cur)], cur + 1)
  ELSE IF check(toks, cur, "LeftParen")
    THEN Let(expression_expr(toks, cur + 1), LAMBDA e :
         IF ~e.ok THEN e
         ELSE Let(consume(toks, e.cur, "RightParen",
                          "Expect ')' after expression."), LAMBDA c :
              IF ~c.ok THEN c
              ELSE POk([t |-> "Grouping", expression |-> e.v], c.cur)))
  ELSE PErr("Expect expression", cur)

unary_expr(toks, cur) ==
  IF match_tokens(toks, cur, {"Bang", "Minus"})
    THEN Let(unary_expr(toks, cur + 1), LAMBDA right :
         IF ~right.ok THEN right
         ELSE POk([t |-> "Unary", operator |-> peek(toks, cur),
                   right |-> right.v], right.cur))
    ELSE call_expr(toks, cur)

call_loop(toks, r) ==
  IF check(toks, r.cur, "LeftParen")
    THEN Let(finish_call_expr(toks, r.v, r.cur + 1), LAMBDA c :
         IF ~c.ok THEN c ELSE call_loop(toks, c))
  ELSE IF check(toks, r.cur, "Dot")
    THEN Let(consume(toks, r.cur + 1, "Identifier",
                     "Expect property name after \".\""), LAMBDA name :
         IF ~name.ok THEN name
         ELSE Let(POk([t |-> "Get", object |-> r.v, name |-> name.v],
                      name.cur), LAMBDA get : call_loop(toks, get)))
  ELSE r

call_expr(toks, cur) ==
  Let(primary_expr(toks, cur), LAMBDA expr :
  IF ~expr.ok THEN expr ELSE call_loop(toks, expr))

arguments_loop(toks, cur, arguments) ==
  Let(expression_expr(toks, cur), LAMBDA a :
  IF ~a.ok THEN a
  ELSE Let(Append(arguments, a.v), LAMBDA pushed :
       IF check(toks, a.cur, "Comma")
         THEN arguments_loop(toks, a.cur + 1, pushed)
         ELSE POk(pushed, a.cur)))

finish_call_expr(toks, callee, cur) ==
  Let(IF ~check(toks, cur, "RightParen")
        THEN arguments_loop(toks, cur, <<>>)
        ELSE POk(<<>>, cur), LAMBDA arguments :
  IF ~arguments.ok THEN arguments
  ELSE Let(consume(toks, arguments.cur, "RightParen",
                   "Expect \")\" after arguments."), LAMBDA paren :
       IF ~paren.ok THEN paren
       ELSE POk([t |-> "Call", callee |-> callee, paren |-> paren.v,
                 arguments |-> arguments.v], paren.cur)))

\* The operand parser each binary level calls.
operand(level, toks, cur) ==
  CASE level = "multiplication" -> unary_expr(toks, cur)
    [] level = "addition" -> multiplication_expr(toks, cur)
    [] level = "comparison" -> addition_expr(toks, cur)
    [] level = "equality" -> comparison_expr(toks, cur)
    [] level = "and" -> equality_expr(toks, cur)
    [] level = "or" -> and_expr(toks, cur)

\* `while self.match_tokens(types) { op; right; expr = kind{expr, op, right} }`
left_assoc(toks, level, kind, types, r) ==
  IF match_tokens(toks, r.cur, types)
    THEN Let(operand(level, toks, r.cur + 1), LAMBDA right :
         IF ~right.ok THEN right
         ELSE Let(POk([t |-> kind, left |-> r.v,
                       operator |-> peek(toks, r.cur), right |-> right.v],
                      right.cur), LAMBDA expr :
              left_assoc(toks, level, kind, types, expr)))
    ELSE r

multiplication_expr(toks, cur) ==
  Let(unary_expr(toks, cur), LAMBDA expr :
  IF ~expr.ok THEN expr
  ELSE left_assoc(toks, "multiplication", "Binary", {"Slash", "Star"}, expr))

addition_expr(toks, cur) ==
  Let(multiplication_expr(toks, cur), LAMBDA expr :
  IF ~expr.ok THEN expr
  ELSE left_assoc(toks, "addition", "Binary", {"Minus", "Plus"}, expr))

comparison_expr(toks, cur) ==
  Let(addition_expr(toks, cur), LAMBDA expr :
  IF ~expr.ok THEN expr
  ELSE left_assoc(toks, "comparison", "Binary",
                  {"Greater", "GreaterEqual", "Less", "LessEqual"}, expr))

equality_expr(toks, cur) ==
  Let(comparison_expr(toks, cur), LAMBDA expr :
  IF ~expr.ok THEN expr
  ELSE left_assoc(toks, "equality", "Binary", {"BangEqual", "EqualEqual"},
                  expr))

and_expr(toks, cur) ==
  Let(equality_expr(toks, cur), LAMBDA expr :
  IF ~expr.ok THEN expr
  ELSE left_assoc(toks, "and", "Logical", {"And"}, expr))

or_expr(toks, cur) ==
  Let(and_expr(toks, cur), LAMBDA expr :
  IF ~expr.ok THEN expr
  ELSE left_assoc(toks, "or", "Logical", {"Or"}, expr))

ternary_expr(toks, cur) ==
  Let(or_expr(toks, cur), LAMBDA expr :
  IF ~expr.ok THEN expr
  ELSE IF check(toks, expr.cur, "QuestionMark")
    THEN Let(expression_expr(toks, expr.cur + 1), LAMBDA then_value :
         IF ~then_value.ok THEN then_value
         ELSE Let(consume(toks, then_value.cur, "Colon",
                    "Expect \":\" separating then and else clauses of ternary expression."),
                  LAMBDA c :
              IF ~c.ok THEN c
              ELSE Let(expression_expr(toks, c.cur), LAMBDA else_value :
                   IF ~else_value.ok THEN else_value
                   ELSE POk([t |-> "Ternary", condition |-> expr.v,
                             then_value |-> then_value.v,
                             else_value |-> else_value.v], else_value.cur))))
  ELSE expr)

assignment_expr(toks, cur) ==
  Let(ternary_expr(toks, cur), LAMBDA e0 :
  IF ~e0.ok THEN e0
  ELSE
    Let(IF check(toks, e0.cur, "Fun")
          THEN lambda_expr(toks, e0.cur + 1) ELSE e0, LAMBDA expr :
    IF ~expr.ok THEN expr
    ELSE IF check(toks, expr.cur, "Equal")
      THEN Let(assignment_expr(toks, expr.cur + 1), LAMBDA value :
           IF ~value.ok THEN value
           ELSE IF expr.v.t = "Variable"
             THEN POk([t |-> "Assign", name |-> expr.v.name,
                       value |-> value.v], value.cur)
           ELSE IF expr.v.t = "Get"
             THEN POk([t |-> "Set", object |-> expr.v.object,
                       name |-> expr.v.name, value |-> value.v], value.cur)
           ELSE PErr("Invalid assignment target.", value.cur))
    ELSE expr))

expression_expr(toks, cur) == assignment_expr(toks, cur)

\* `loop { parameters.push(consume(Identifier)?); if !match(Comma) { break } }`
parameters_loop(toks, cur, parameters) ==
  Let(consume(toks, cur, "Identifier", "Expect parameter name."), LAMBDA p :
  IF ~p.ok THEN p
  ELSE Let(Append(parameters, p.v), LAMBDA pushed :
       IF check(toks, p.cur, "Comma")
         THEN parameters_loop(toks, p.cur + 1, pushed)
         ELSE POk(pushed, p.cur)))

\* From the "(" of a parameter list to the "}" closing the body.
function_rest(toks, cur) ==
  Let(consume(toks, cur, "LeftParen", "Expect \"(\" after name."), LAMBDA lp :
  IF ~lp.ok THEN lp
  ELSE
    Let(IF ~check(toks, lp.cur, "RightParen")
          THEN parameters_loop(toks, lp.cur, <<>>)
          ELSE POk(<<>>, lp.cur), LAMBDA parameters :
    IF ~parameters.ok THEN parameters
    ELSE
      Let(consume(toks, parameters.cur, "RightParen",
                  "Expect \")\" after parameter list."), LAMBDA rp :
      IF ~rp.ok THEN rp
      ELSE Let(consume(toks, rp.cur, "LeftBrace",
                       "Expect \"{\" before body."), LAMBDA lb :
           IF ~lb.ok THEN lb
           ELSE Let(block_stmt(toks, lb.cur), LAMBDA body :
                IF ~body.ok THEN body
                ELSE POk([parameters |-> parameters.v, body |-> body.v],
                         body.cur))))))

lambda_expr(toks, cur) ==
  Let(function_rest(toks, cur), LAMBDA f :
  IF ~f.ok THEN f
  ELSE POk([t |-> "Lambda", parameters |-> f.v.parameters, body |-> f.v.body],
           f.cur))

function_stmt(toks, cur, function_type) ==
  Let(consume(toks, cur, "Identifier", "Expect name."), LAMBDA name :
  IF ~name.ok THEN name
  ELSE Let(function_rest(toks, name.cur), LAMBDA f :
       IF ~f.ok THEN f
       ELSE POk([t |-> "Function", name |-> name.v,
                 parameters |-> f.v.parameters, body |-> f.v.body,
                 fn_type |-> function_type], f.cur)))

block_loop(toks, cur, stmts) ==
  IF ~check(toks, cur, "RightBrace") /\ ~is_at_end(toks, cur)
    THEN Let(declaration_stmt(toks, cur), LAMBDA s :
         IF ~s.ok THEN s
         ELSE block_loop(toks, s.cur, Append(stmts, s.v)))
    ELSE Let(consume(toks, cur, "RightBrace", "Expect \"}\" after block."),
             LAMBDA c : IF ~c.ok THEN c ELSE POk(stmts, c.cur))

block_stmt(toks, cur) == block_loop(toks, cur, <<>>)

_declaration_stmt(toks, cur) ==
  IF check(toks, cur, "Class") THEN class_declaration_stmt(toks, cur + 1)
  ELSE IF check(toks, cur, "Fun") THEN function_stmt(toks, cur + 1, "Function")
  ELSE IF check(toks, cur, "Var") THEN var_declaration_stmt(toks, cur + 1)
  ELSE statement_stmt(toks, cur)

declaration_stmt(toks, cur) ==
  Let(_declaration_stmt(toks, cur), LAMBDA r :
  IF r.ok THEN r ELSE PErr(r.err, synchronize(toks, r.cur)))

\* One member of a class body: `("class")? IDENT ("(" params? ")")? block`.
\* A member without a parameter list is a property; one after `class` is a
\* class method.
class_member_stmt(toks, cur) ==
  IF check(toks, cur, "Class") THEN function_stmt(toks, cur + 1, "ClassMethod")
  ELSE IF check(toks, cur, "Identifier") /\ check(toks, cur + 1, "LeftBrace")
    THEN Let(block_stmt(toks, cur + 2), LAMBDA body :
         IF ~body.ok THEN body
         ELSE POk([t |-> "Function", name |-> peek(toks, cur),
                   parameters |-> <<>>, body |-> body.v,
                   fn_type |-> "Property"], body.cur))
  ELSE function_stmt(toks, cur, "Method")

class_members_loop(toks, cur, methods, class_methods) ==
  IF ~check(toks, cur, "RightBrace") /\ ~is_at_end(toks, cur)
    THEN Let(class_member_stmt(toks, cur), LAMBDA m :
         IF ~m.ok THEN m
         ELSE Let(Append(IF m.v.fn_type = "ClassMethod"
                           THEN class_methods ELSE methods, m.v),
                  LAMBDA pushed :
              IF m.v.fn_type = "ClassMethod"
                THEN class_members_loop(toks, m.cur, methods, pushed)
                ELSE class_members_loop(toks, m.cur, pushed, class_methods)))
    ELSE POk([methods |-> methods, class_methods |-> class_methods], cur)

class_declaration_stmt(toks, cur) ==
  Let(consume(toks, cur, "Identifier", "Expect class name"), LAMBDA name :
  IF ~name.ok THEN name
  ELSE
    Let(consume(toks, name.cur, "LeftBrace",
                "Expect \"{\" before class body"), LAMBDA lb :
    IF ~lb.ok THEN lb
    ELSE
      Let(class_members_loop(toks, lb.cur, <<>>, <<>>), LAMBDA members :
      IF ~members.ok THEN members
      ELSE Let(consume(toks, members.cur, "RightBrace",
                       "Expect \"}\" after class body."), LAMBDA rb :
           IF ~rb.ok THEN rb
           ELSE POk([t |-> "Class", name |-> name.v,
                     methods |-> members.v.methods,
                     class_methods |-> members.v.class_methods], rb.cur)))))

break_stmt(toks, cur) ==
  Let(consume(toks, cur, "Semicolon",
              "Expect \";\" after \"break\" statement."), LAMBDA c :
  IF ~c.ok THEN c ELSE POk([t |-> "Break", keyword |-> peek(toks, cur)], c.cur))

statement_stmt(toks, cur) ==
  IF check(toks, cur, "For") THEN for_stmt(toks, cur + 1)
  ELSE IF check(toks, cur, "If") THEN if_stmt(toks, cur + 1)
  ELSE IF check(toks, cur, "Print") THEN print_stmt(toks, cur + 1)
  ELSE IF check(toks, cur, "Return") THEN return_stmt(toks, cur + 1)
  ELSE IF check(toks, cur, "While") THEN while_stmt(toks, cur + 1)
  ELSE IF check(toks, cur, "Break") THEN break_stmt(toks, cur + 1)
  ELSE IF check(toks, cur, "LeftBrace")
    THEN Let(block_stmt(toks, cur + 1), LAMBDA b :
         IF ~b.ok THEN b ELSE POk([t |-> "Block", statements |-> b.v], b.cur))
  ELSE expression_stmt(toks, cur)

\* `Some(x)` of a parsed node, an error as it is
some_of(r) == Let(r, LAMBDA x : IF ~x.ok THEN x ELSE POk(Some(x.v), x.cur))

\* the desugaring at the end of for_stmt
for_desugar(initializer, condition, increment, body) ==
  LET body1 ==
        IF IsSome(increment)
          THEN [t |-> "Block", statements |->
                 <<body, [t |-> "Expression", expression |-> Unwrap(increment)]>>]
          ELSE body
      body2 ==
        IF IsSome(condition)
          THEN [t |-> "While", condition |-> Unwrap(condition), body |-> body1]
          ELSE [t |-> "While",
                condition |-> [t |-> "Literal", value |-> Literal("True", 0, "")],
                body |-> body1]
  IN IF IsSome(initializer)
       THEN [t |-> "Block", statements |-> <<Unwrap(initializer), body2>>]
       ELSE body2

for_stmt(toks, cur) ==
  Let(consume(toks, cur, "LeftParen", "Expect \"(\" after \"for\"."), LAMBDA lp :
  IF ~lp.ok THEN lp
  ELSE
    Let(IF check(toks, lp.cur, "Semicolon") THEN POk(None, lp.cur + 1)
        ELSE IF check(toks, lp.cur, "Var")
          THEN some_of(var_declaration_stmt(toks, lp.cur + 1))
          ELSE some_of(expression_stmt(toks, lp.cur)), LAMBDA initializer :
    IF ~initializer.ok THEN initializer
    ELSE
      Let(IF ~check(toks, initializer.cur, "Semicolon")
            THEN some_of(expression_expr(toks, initializer.cur))
            ELSE POk(None, initializer.cur), LAMBDA condition :
      IF ~condition.ok THEN condition
      ELSE
        Let(consume(toks, condition.cur, "Semicolon",
                    "Expect \";\" after for loop condition."), LAMBDA semi :
        IF ~semi.ok THEN semi
        ELSE
          Let(IF ~check(toks, semi.cur, "RightParen")
                THEN some_of(expression_expr(toks, semi.cur))
                ELSE POk(None, semi.cur), LAMBDA increment :
          IF ~increment.ok THEN increment
          ELSE
            Let(consume(toks, increment.cur, "RightParen",
                        "Expect \")\" after for clauses."), LAMBDA rp :
            IF ~rp.ok THEN rp
            ELSE
              Let(statement_stmt(toks, rp.cur), LAMBDA body :
              IF ~body.ok THEN body
              ELSE POk(for_desugar(initializer.v, condition.v, increment.v,
                                   body.v), body.cur))))))))

if_stmt(toks, cur) ==
  Let(consume(toks, cur, "LeftParen", "Expect \"(\" after \"if\"."), LAMBDA lp :
  IF ~lp.ok THEN lp
  ELSE
    Let(expression_expr(toks, lp.cur), LAMBDA condition :
    IF ~condition.ok THEN condition
    ELSE
      Let(consume(toks, condition.cur, "RightParen",
                  "Expect \")\" after if condition."), LAMBDA rp :
      IF ~rp.ok THEN rp
      ELSE
        Let(statement_stmt(toks, rp.cur), LAMBDA then_branch :
        IF ~then_branch.ok THEN then_branch
        ELSE IF check(toks, then_branch.cur, "Else")
          THEN Let(statement_stmt(toks, then_branch.cur + 1), LAMBDA else_branch :
               IF ~else_branch.ok THEN else_branch
               ELSE POk([t |-> "If", condition |-> condition.v,
                         then_branch |-> then_branch.v,
                         else_branch |-> Some(else_branch.v)], else_branch.cur))
          ELSE POk([t |-> "If", condition |-> condition.v,
                    then_branch |-> then_branch.v, else_branch |-> None],
                   then_branch.cur)))))

print_stmt(toks, cur) ==
  Let(expression_expr(toks, cur), LAMBDA value :
  IF ~value.ok THEN value
  ELSE Let(consume(toks, value.cur, "Semicolon", "Expect \";\" after value."),
           LAMBDA c :
       IF ~c.ok THEN c ELSE POk([t |-> "Print", expression |-> value.v], c.cur)))

return_stmt(toks, cur) ==
  Let(IF ~check(toks, cur, "Semicolon")
        THEN some_of(expression_expr(toks, cur))
        ELSE POk(None, cur), LAMBDA value :
  IF ~value.ok THEN value
  ELSE Let(consume(toks, value.cur, "Semicolon",
                   "Expect \";\" after return value."), LAMBDA c :
       IF ~c.ok THEN c
       ELSE POk([t |-> "Return", keyword |-> previous(toks, cur),
                 value |-> value.v], c.cur)))

var_declaration_stmt(toks, cur) ==
  Let(consume(toks, cur, "Identifier", "Expect variable name."), LAMBDA name :
  IF ~name.ok THEN name
  ELSE
    Let(IF check(toks, name.cur, "Equal")
          THEN some_of(expression_expr(toks, name.cur + 1))
          ELSE POk(None, name.cur), LAMBDA initializer :
    IF ~initializer.ok THEN initializer
    ELSE Let(consume(toks, initializer.cur, "Semicolon",
                     "Expect \";\" after variable declaration."), LAMBDA c :
         IF ~c.ok THEN c
         ELSE POk([t |-> "Var", name |-> name.v,
                   initializer |-> initializer.v], c.cur))))

while_stmt(toks, cur) ==
  Let(consume(toks, cur, "LeftParen",
              "Expect \"(\" after variable \"while\"."), LAMBDA lp :
  IF ~lp.ok THEN lp
  ELSE
    Let(expression_expr(toks, lp.cur), LAMBDA condition :
    IF ~condition.ok THEN condition
    ELSE
      Let(consume(toks, condition.cur, "RightParen",
                  "Expect \")\" after variable \"while\" condition."), LAMBDA rp :
      IF ~rp.ok THEN rp
      ELSE Let(statement_stmt(toks, rp.cur), LAMBDA body :
           IF ~body.ok THEN body
           ELSE POk([t |-> "While", condition |-> condition.v,
                     body |-> body.v], body.cur)))))

expression_stmt(toks, cur) ==
  Let(expression_expr(toks, cur), LAMBDA expr :
  IF ~expr.ok THEN expr
  ELSE Let(consume(toks, expr.cur, "Semicolon",
                   "Expect \";\" after expression."), LAMBDA c :
       IF ~c.ok THEN c
       ELSE POk([t |-> "Expression", expression |-> expr.v], c.cur)))

RECURSIVE parse_loop(_, _, _)
parse_loop(toks, cur, stmts) ==
  IF ~is_at_end(toks, cur)
    THEN Let(declaration_stmt(toks, cur), LAMBDA s :
         IF ~s.ok THEN s
         ELSE parse_loop(toks, s.cur, Append(stmts, s.v)))
    ELSE POk(stmts, cur)

parse(toks) == parse_loop(toks, 1, <<>>)

(***************************************************************************)
(* resolver.rs                                                             *)
(* The resolver state is [scopes, current_function, current_class,         *)
(* loop_depths, locals, err]: `locals` is the interpreter's table the      *)
(* resolver writes through Interpreter::resolve_local, `err` the           *)
(* ResolveError message ("" while none was raised).                        *)
(***************************************************************************)
Variable_new(token) == [state |-> "Declared", token |-> token]
is_defined(variable) == variable.state # "Declared"
is_accessed(variable) == variable.state = "Accessed"

\* `recorded` is the history of the calls of Interpreter::resolve_local
Resolver_new(locals) ==
  [scopes |-> <<>>, current_function |-> "NoFunction",
   current_class |-> "NoClass", loop_depths |-> <<0>>, locals |-> locals,
   err |-> "", recorded |-> <<>>]

Fail(r, msg) == [r EXCEPT !.err = msg]
Last(seq) == seq[Len(seq)]
Pop(seq) == SubSeq(seq, 1, Len(seq) - 1)

\* Interpreter::resolve_local: locals.insert(variable.clone(), distance).
\* The key is the expression itself (derived Hash/Eq over its fields).
interp_resolve_local(locals, variable, distance) ==
  (variable :> distance) @@ locals

begin_scope(r) == [r EXCEPT !.scopes = Append(@, <<>>)]

\* end_scope that only pops
end_scope_unchecked(r) ==
  IF Len(r.scopes) > 0 THEN [r EXCEPT !.scopes = Pop(@)] ELSE r

end_scope(r) ==
  IF Len(r.scopes) > 0
       /\ \E n \in DOMAIN Last(r.scopes) : ~is_accessed(Last(r.scopes)[n])
    THEN Fail(r, "Variable defined but never accessed")
  ELSE IF Len(r.scopes) > 0 THEN [r EXCEPT !.scopes = Pop(@)]
  ELSE r

\* declare replacing what the scope holds under the name
declare_overwriting(r, name) ==
  IF Len(r.scopes) > 0
    THEN [r EXCEPT !.scopes[Len(r.scopes)] =
            (name.lexeme :> Variable_new(Some(name))) @@ @]
    ELSE r

declare(r, name) ==
  IF Len(r.scopes) > 0
    THEN IF name.lexeme \in DOMAIN Last(r.scopes)
           THEN Fail(r, "Variable already defined in this scope.")
           ELSE [r EXCEPT !.scopes[Len(r.scopes)] =
                   (name.lexeme :> Variable_new(Some(name))) @@ @]
    ELSE r

define(r, name) ==
  IF Len(r.scopes) > 0 /\ name.lexeme \in DOMAIN Last(r.scopes)
    THEN [r EXCEPT !.scopes[Len(r.scopes)][name.lexeme].state = "Defined"]
    ELSE r

RECURSIVE resolve_local_from(_, _, _, _)
resolve_local_from(r, variable, name, i) ==
  IF i < 1 THEN r
  ELSE IF name.lexeme \in DOMAIN r.scopes[i]
    THEN [r EXCEPT !.scopes[i][name.lexeme].state = "Accessed",
                   !.locals = interp_resolve_local(@, variable,
                                                   Len(r.scopes) - i),
                   !.recorded = Append(@, [key |-> variable,
                                           distance |-> Len(r.scopes) - i])]
  ELSE resolve_local_from(r, variable, name, i - 1)

resolve_local(r, variable, name) ==
  resolve_local_from(r, variable, name, Len(r.scopes))

RECURSIVE resolve_statements(_, _), resolve_statement(_, _),
          resolve_expression(_, _), resolve_expressions(_, _),
          resolve_function(_, _, _, _), declare_parameters(_, _),
          resolve_methods(_, _), r_visit_class_stmt(_, _),
          r_visit_while_stmt(_, _), r_visit_return_stmt(_, _),
          r_visit_var_stmt(_, _), r_visit_if_stmt(_, _)

resolve_statements(r, stmts) ==
  IF stmts = <<>> THEN r
  ELSE Let(resolve_statement(r, Head(stmts)), LAMBDA r1 :
       IF r1.err # "" THEN r1
       ELSE Let(Tail(stmts), LAMBDA rest : resolve_statements(r1, rest)))

\* `for arg in arguments { self.resolve_expression(arg)?; }`
resolve_expressions(r, exprs) ==
  IF exprs = <<>> THEN r
  ELSE Let(resolve_expression(r, Head(exprs)), LAMBDA r1 :
       IF r1.err # "" THEN r1
       ELSE Let(Tail(exprs), LAMBDA rest : resolve_expressions(r1, rest)))

\* `for param in parameters { self.declare(param)?; self.define(param); }`
declare_parameters(r, parameters) ==
  IF parameters = <<>> THEN r
  ELSE Let(declare(r, Head(parameters)), LAMBDA r1 :
       IF r1.err # "" THEN r1
       ELSE Let(define(r1, Head(parameters)), LAMBDA r2 :
            Let(Tail(parameters), LAMBDA rest : declare_parameters(r2, rest))))

\* resolve_function counting loops across function bodies
resolve_function_shared_loops(r, parameters, body, function_type) ==
  Let(begin_scope([r EXCEPT !.current_function = function_type]), LAMBDA r1 :
  Let(declare_parameters(r1, parameters), LAMBDA r2 :
  IF r2.err # "" THEN r2
  ELSE Let(resolve_statements(r2, body), LAMBDA r3 :
       IF r3.err # "" THEN r3
       ELSE Let(end_scope(r3), LAMBDA r4 :
            IF r4.err # "" THEN r4
            ELSE [r4 EXCEPT !.current_function = r.current_function]))))

resolve_function(r, parameters, body, function_type) ==
  Let(begin_scope([r EXCEPT !.current_function = function_type,
                            !.loop_depths = Append(@, 0)]), LAMBDA r1 :
  Let(declare_parameters(r1, parameters), LAMBDA r2 :
  IF r2.err # "" THEN r2
  ELSE Let(resolve_statements(r2, body), LAMBDA r3 :
       IF r3.err # "" THEN r3
       ELSE Let(end_scope(r3), LAMBDA r4 :
            IF r4.err # "" THEN r4
            ELSE [r4 EXCEPT !.loop_depths = Pop(@),
                            !.current_function = r.current_function]))))

r_visit_assign_expr(r, expr) ==
  Let(resolve_expression(r, expr.value), LAMBDA r1 :
  IF r1.err # "" THEN r1 ELSE resolve_local(r1, expr, expr.name))

r_visit_this_expr(r, expr) ==
  IF r.current_class = "Class" THEN resolve_local(r, expr, expr.keyword)
  ELSE Fail(r, "Cannot use \"this\" outside of a class.")

r_visit_variable_expr(r, expr) ==
  IF Len(r.scopes) > 0
       /\ expr.name.lexeme \in DOMAIN Last(r.scopes)
       /\ ~is_defined(Last(r.scopes)[expr.name.lexeme])
    THEN Fail(r, "Cannot read local variable in its own initializer.")
    ELSE resolve_local(r, expr, expr.name)

resolve_expression(r, expr) ==
  CASE expr.t = "Assign" -> r_visit_assign_expr(r, expr)
    [] expr.t \in {"Binary", "Logical"} ->
         resolve_expressions(r, <<expr.left, expr.right>>)
    [] expr.t = "Call" ->
         resolve_expressions(r, <<expr.callee>> \o expr.arguments)
    [] expr.t = "Get" -> resolve_expression(r, expr.object)
    [] expr.t = "Grouping" -> resolve_expression(r, expr.expression)
    [] expr.t = "Lambda" ->
         resolve_function(r, expr.parameters, expr.body, "Lambda")
    [] expr.t = "Literal" -> r
    [] expr.t = "Set" -> resolve_expressions(r, <<expr.value, expr.object>>)
    [] expr.t = "Ternary" ->
         resolve_expressions(r, <<expr.condition, expr.then_value,
                                  expr.else_value>>)
    [] expr.t = "This" -> r_visit_this_expr(r, expr)
    [] expr.t = "Unary" -> resolve_expression(r, expr.right)
    [] expr.t = "Variable" -> r_visit_variable_expr(r, expr)

r_visit_block_stmt(r, stmt) ==
  Let(begin_scope(r), LAMBDA r0 :
  Let(resolve_statements(r0, stmt.statements), LAMBDA r1 :
  IF r1.err # "" THEN r1 ELSE end_scope(r1)))

\* visit_break_stmt accepting a break wherever it stands
r_visit_break_stmt_anywhere(r, stmt) == r

r_visit_break_stmt(r, stmt) ==
  IF Len(r.loop_depths) > 0 /\ Last(r.loop_depths) = 0
    THEN Fail(r, "Illegal \"break\" statement outside of a loop.")
    ELSE r

\* `for method in methods { ... self.resolve_function(...)?; }`
resolve_methods(r, methods) ==
  IF methods = <<>> THEN r
  ELSE Let(resolve_function(r, Head(methods).parameters, Head(methods).body,
                            IF Head(methods).name.lexeme = "init"
                              THEN "Initializer" ELSE "Method"), LAMBDA r1 :
       IF r1.err # "" THEN r1
       ELSE Let(Tail(methods), LAMBDA rest : resolve_methods(r1, rest)))

\* resolver.rs receives (name, methods): the class methods of the statement
\* are not visited.
\* visit_class_stmt leaving current_class as the class set it
r_visit_class_stmt_unrestored(r, stmt) ==
  Let(declare([r EXCEPT !.current_class = "Class"], stmt.name), LAMBDA r1 :
  IF r1.err # "" THEN r1
  ELSE
    Let(begin_scope(define(r1, stmt.name)), LAMBDA r2 :
    Let([r2 EXCEPT !.scopes[Len(r2.scopes)] =
           ("this" :> [state |-> "Accessed", token |-> None]) @@ @], LAMBDA r3 :
    Let(resolve_methods(r3, stmt.methods), LAMBDA r4 :
    IF r4.err # "" THEN r4 ELSE end_scope(r4)))))

r_visit_class_stmt(r, stmt) ==
  Let(declare([r EXCEPT !.current_class = "Class"], stmt.name), LAMBDA r1 :
  IF r1.err # "" THEN r1
  ELSE
    Let(begin_scope(define(r1, stmt.name)), LAMBDA r2 :
    Let([r2 EXCEPT !.scopes[Len(r2.scopes)] =
           ("this" :> [state |-> "Accessed", token |-> None]) @@ @], LAMBDA r3 :
    Let(resolve_methods(r3, stmt.methods), LAMBDA r4 :
    IF r4.err # "" THEN r4
    ELSE Let(end_scope(r4), LAMBDA r5 :
         IF r5.err # "" THEN r5
         ELSE [r5 EXCEPT !.current_class = r.current_class])))))

r_visit_function_stmt(r, stmt) ==
  Let(declare(r, stmt.name), LAMBDA r1 :
  IF r1.err # "" THEN r1
  ELSE Let(define(r1, stmt.name), LAMBDA r2 :
       resolve_function(r2, stmt.parameters, stmt.body, "Function")))

r_visit_if_stmt(r, stmt) ==
  Let(resolve_expression(r, stmt.condition), LAMBDA r1 :
  IF r1.err # "" THEN r1
  ELSE Let(resolve_statement(r1, stmt.then_branch), LAMBDA r2 :
       IF r2.err # "" THEN r2
       ELSE IF IsSome(stmt.else_branch)
         THEN resolve_statement(r2, Unwrap(stmt.else_branch))
       ELSE r2))

\* visit_return_stmt without the look at the enclosing function
r_visit_return_stmt_anywhere(r, stmt) ==
  IF IsSome(stmt.value)
    THEN IF r.current_function = "Initializer"
           THEN Fail(r, "Cannot return a value from class initializer method.")
           ELSE resolve_expression(r, Unwrap(stmt.value))
  ELSE r

r_visit_return_stmt(r, stmt) ==
  IF r.current_function = "NoFunction"
    THEN Fail(r, "Cannot return from top-level code.")
  ELSE IF IsSome(stmt.value)
    THEN IF r.current_function = "Initializer"
           THEN Fail(r, "Cannot return a value from class initializer method.")
           ELSE resolve_expression(r, Unwrap(stmt.value))
  ELSE r

r_visit_var_stmt(r, stmt) ==
  Let(declare(r, stmt.name), LAMBDA r1 :
  IF r1.err # "" THEN r1
  ELSE Let(IF IsSome(stmt.initializer)
             THEN resolve_expression(r1, Unwrap(stmt.initializer))
             ELSE r1, LAMBDA r2 :
       IF r2.err # "" THEN r2 ELSE define(r2, stmt.name)))

r_visit_while_stmt(r, stmt) ==
  Let(IF Len(r.loop_depths) > 0
        THEN [r EXCEPT !.loop_depths[Len(r.loop_depths)] = @ + 1]
        ELSE r, LAMBDA r0 :
  Let(resolve_expression(r0, stmt.condition), LAMBDA r1 :
  Let(IF r1.err = "" THEN resolve_statement(r1, stmt.body) ELSE r1, LAMBDA r2 :
  IF Len(r2.loop_depths) > 0
    THEN [r2 EXCEPT !.loop_depths[Len(r2.loop_depths)] = @ - 1]
    ELSE r2)))

resolve_statement(r, stmt) ==
  CASE stmt.t = "Block" -> r_visit_block_stmt(r, stmt)
    [] stmt.t = "Break" -> r_visit_break_stmt(r, stmt)
    [] stmt.t = "Class" -> r_visit_class_stmt(r, stmt)
    [] stmt.t \in {"Expression", "Print"} ->
         resolve_expression(r, stmt.expression)
    [] stmt.t = "Function" -> r_visit_function_stmt(r, stmt)
    [] stmt.t = "If" -> r_visit_if_stmt(r, stmt)
    [] stmt.t = "Return" -> r_visit_return_stmt(r, stmt)
    [] stmt.t = "Var" -> r_visit_var_stmt(r, stmt)
    [] stmt.t = "While" -> r_visit_while_stmt(r, stmt)

resolve(r, stmts) == resolve_statements(r, stmts)

(***************************************************************************)
(* object.rs: runtime values.  Callable, Class and Instance carry the      *)
(* handle of the shared (Rc<RefCell<..>>) object they point to.            *)
(***************************************************************************)
LoxObject(k, n, s) == [k |-> k, n |-> n, s |-> s]
Nil == LoxObject("Nil", 0, "")
Undefined == LoxObject("Undefined", 0, "")
Number(n) == LoxObject("Number", n, "")
Str(s) == LoxObject("Str", 0, s)
Boolean(b) == LoxObject("Boolean", IF b THEN 1 ELSE 0, "")
Callable(h) == LoxObject("Callable", h, "")
Class(h) == LoxObject("Class", h, "")
Instance(h) == LoxObject("Instance", h, "")
\* Option<LoxObject>::None, where a call or a return carries no value
NoObject == LoxObject("None", 0, "")

from_literal(literal) ==
  CASE literal.k = "Number" -> Number(literal.n)
    [] literal.k = "Str" -> Str(literal.s)
    [] literal.k = "False" -> Boolean(FALSE)
    [] literal.k = "True" -> Boolean(TRUE)
    [] literal.k = "Nil" -> Nil

is_truthy(v) ==
  CASE v.k = "Nil" -> FALSE
    [] v.k = "Boolean" -> v.n = 1
    [] OTHER -> TRUE

Digits == <<"0", "1", "2", "3", "4", "5", "6", "7", "8", "9">>
RECURSIVE NatStr(_)
NatStr(n) == IF n < 10 THEN Digits[n + 1]
             ELSE NatStr(n \div 10) \o Digits[(n % 10) + 1]
\* `{}` of an f64 holding an integer
NumStr(n) == IF n < 0 THEN "-" \o NatStr(0 - n) ELSE NatStr(n)

(***************************************************************************)
(* Results.  InterpretResult<T> is [it, status, v, msg]: `it` the          *)
(* interpreter after the step, status Ok / Error / Break / Return.         *)
(***************************************************************************)
ROk(it, v) == [it |-> it, status |-> "Ok", v |-> v, msg |-> ""]
RErr(it, msg) == [it |-> it, status |-> "Error", v |-> Nil, msg |-> msg]
\* a panic!: the process ends here
RPanic(it, msg) == [it |-> it, status |-> "Panic", v |-> Nil, msg |-> msg]
RBreak(it) == [it |-> it, status |-> "Break", v |-> Nil, msg |-> ""]
RReturn(it, v) == [it |-> it, status |-> "Return", v |-> v, msg |-> ""]

\* history of the run: one record per observed event
Event(e, name, a, b) == [e |-> e, name |-> name, a |-> a, b |-> b]
Log(it, ev) == [it EXCEPT !.trace = Append(@, ev)]

(***************************************************************************)
(* environment.rs: environments live in it.envs, handle 0 is "no parent".  *)
(***************************************************************************)
Environment_new(it) ==
  [it EXCEPT !.envs = Append(@, [enclosing |-> 0, values |-> <<>>])]
as_child_of(it, parent) ==
  [it EXCEPT !.envs = Append(@, [enclosing |-> parent, values |-> <<>>])]
\* handle of the environment the last Environment_new / as_child_of made
NewEnv(it) == Len(it.envs)

\* define keeping the value a bound name already has
env_define_once(it, e, name, value) ==
  IF name \in DOMAIN it.envs[e].values THEN it
  ELSE [it EXCEPT !.envs[e].values = (name :> value) @@ @]

env_define(it, e, name, value) ==
  [it EXCEPT !.envs[e].values = (name :> value) @@ @]

\* assign defining the name at the root when no scope holds it
RECURSIVE env_assign_defining(_, _, _, _)
env_assign_defining(it, e, name, value) ==
  IF name.lexeme \in DOMAIN it.envs[e].values
    THEN ROk(env_define(it, e, name.lexeme, value), Nil)
  ELSE Let(it.envs[e].enclosing, LAMBDA enclosing :
       IF enclosing # 0
         THEN env_assign_defining(it, enclosing, name, value)
       ELSE ROk(env_define(it, e, name.lexeme, value), Nil))

RECURSIVE env_assign(_, _, _, _)
env_assign(it, e, name, value) ==
  IF name.lexeme \in DOMAIN it.envs[e].values
    THEN ROk(env_define(it, e, name.lexeme, value), Nil)
  ELSE Let(it.envs[e].enclosing, LAMBDA enclosing :
       IF enclosing # 0 THEN env_assign(it, enclosing, name, value)
       ELSE RErr(it, "Undefined variable \"" \o name.lexeme \o "\"."))

RECURSIVE env_get(_, _, _)
env_get(it, e, name) ==
  IF name.lexeme \in DOMAIN it.envs[e].values
    THEN ROk(it, it.envs[e].values[name.lexeme])
  ELSE Let(it.envs[e].enclosing, LAMBDA parent :
       IF parent # 0 THEN env_get(it, parent, name)
       ELSE RErr(it, "Undefined variable \"" \o name.lexeme \o "\"."))

RECURSIVE ancestor(_, _, _)
ancestor(it, e, distance) ==
  IF distance = 0 THEN e
  ELSE Let(it.envs[e].enclosing, LAMBDA enclosing :
       IF enclosing # 0 THEN ancestor(it, enclosing, distance - 1) ELSE 0)

env_get_at(it, e, distance, name) ==
  Let(ancestor(it, e, distance), LAMBDA a :
  IF a # 0
    THEN IF name \in DOMAIN it.envs[a].values
           THEN ROk(it, it.envs[a].values[name])
           ELSE RErr(it, "Environment::get_at - Undefined variable \"" \o name
                         \o "\" at distance: " \o NumStr(distance) \o ".")
    ELSE RErr(it, "No ancestor at distance \"" \o NumStr(distance) \o "\"."))

\* assign_at writing only where the name is already bound
env_assign_at_bound(it, e, distance, name, value) ==
  Let(ancestor(it, e, distance), LAMBDA a :
  IF a # 0 /\ name.lexeme \in DOMAIN it.envs[a].values
    THEN ROk(env_define(it, a, name.lexeme, value), Nil)
    ELSE RErr(it, "No ancestor environment at distance \""
                  \o NumStr(distance) \o "\"."))

env_assign_at(it, e, distance, name, value) ==
  Let(ancestor(it, e, distance), LAMBDA a :
  IF a # 0
    THEN ROk(env_define(it, a, name.lexeme, value), Nil)
    ELSE RErr(it, "No ancestor environment at distance \""
                  \o NumStr(distance) \o "\"."))

(***************************************************************************)
(* function.rs, natives.rs, class.rs: the parts that do not run code.      *)
(***************************************************************************)
new_function(name, parameters, body, closure, is_initializer, fn_type) ==
  [native |-> FALSE, name |-> Some(name), parameters |-> parameters,
   body |-> body, closure |-> closure, is_initializer |-> is_initializer,
   fn_type |-> fn_type]
new_lambda(parameters, body, closure) ==
  [native |-> FALSE, name |-> None, parameters |-> parameters, body |-> body,
   closure |-> closure, is_initializer |-> FALSE, fn_type |-> "Lambda"]
NativeClock_new ==
  [native |-> TRUE, name |-> None, parameters |-> <<>>, body |-> <<>>,
   closure |-> 0, is_initializer |-> FALSE, fn_type |-> "Function"]

\* Rc::new(RefCell::new(function)): the new handle is Len(it.functions)
AllocFunction(it, f) == [it EXCEPT !.functions = Append(@, f)]

function_arity(f) == Len(f.parameters)
\* is_property answering false for every callable
is_property_never(f) == f.fn_type = "Property" /\ f.native

is_property(f) == f.fn_type = "Property"

\* LoxFunction::bind (a lambda has no name and is never a method)
\* bind defining `this` as a copy of the instance made at binding time
bind_snapshot(it, fh, instance) ==
  Let([it EXCEPT !.instances = Append(@, it.instances[instance.n])],
      LAMBDA it0 :
  Let(as_child_of(it0, it.functions[fh].closure), LAMBDA it1 :
  Let(env_define(it1, NewEnv(it1), "this", Instance(Len(it0.instances))),
      LAMBDA it2 :
  AllocFunction(it2, new_function(Unwrap(it.functions[fh].name),
                                  it.functions[fh].parameters,
                                  it.functions[fh].body, NewEnv(it1),
                                  it.functions[fh].is_initializer,
                                  it.functions[fh].fn_type)))))

bind(it, fh, instance) ==
  Let(as_child_of(it, it.functions[fh].closure), LAMBDA it1 :
  Let(env_define(it1, NewEnv(it1), "this", instance), LAMBDA it2 :
  AllocFunction(it2, new_function(Unwrap(it.functions[fh].name),
                                  it.functions[fh].parameters,
                                  it.functions[fh].body, NewEnv(it1),
                                  it.functions[fh].is_initializer,
                                  it.functions[fh].fn_type))))

RECURSIVE find_method(_, _, _)
find_method(it, ch, name) ==
  IF name \in DOMAIN it.classes[ch].methods THEN it.classes[ch].methods[name]
  ELSE Let(it.classes[ch].super_class, LAMBDA super_class :
       IF super_class # 0 THEN find_method(it, super_class, name) ELSE 0)

RECURSIVE find_class_method(_, _, _)
find_class_method(it, ch, name) ==
  IF name \in DOMAIN it.classes[ch].class_methods
    THEN it.classes[ch].class_methods[name]
  ELSE Let(it.classes[ch].super_class, LAMBDA super_class :
       IF super_class # 0 THEN find_class_method(it, super_class, name)
       ELSE 0)

LoxClass_new(it, name, super_class, methods, class_methods) ==
  [it EXCEPT !.classes = Append(@, [name |-> name, methods |-> methods,
      class_fields |-> <<>>, class_methods |-> class_methods,
      super_class |-> super_class])]

class_get(it, ch, name) ==
  IF name.lexeme \in DOMAIN it.classes[ch].class_fields
    THEN ROk(it, it.classes[ch].class_fields[name.lexeme])
  ELSE Let(find_class_method(it, ch, name.lexeme), LAMBDA method :
       IF method # 0 THEN ROk(it, Callable(method))
       ELSE RErr(it, "Undefined variable \"" \o name.lexeme \o "\"."))

class_set(it, ch, name, value) ==
  [it EXCEPT !.classes[ch].class_fields = (name.lexeme :> value) @@ @]

\* `self.class_data.borrow_mut()` of LoxClass::set panics while a Ref of the
\* class data is alive
class_data_borrowed(it, ch) == \E i \in DOMAIN it.borrowed : it.borrowed[i] = ch

\* LoxClass::arity counting the receiver of `init` as a parameter
class_arity_with_this(it, ch) ==
  Let(find_method(it, ch, "init"), LAMBDA initializer :
  IF initializer # 0 THEN function_arity(it.functions[initializer]) + 1
  ELSE 0)

class_arity(it, ch) ==
  Let(find_method(it, ch, "init"), LAMBDA initializer :
  IF initializer # 0 THEN function_arity(it.functions[initializer]) ELSE 0)

LoxInstance_new(it, class_data) ==
  [it EXCEPT !.instances = Append(@, [class_data |-> class_data,
                                      fields |-> <<>>])]

\* get looking for a method before it looks at the fields
instance_get_method_first(it, ih, name) ==
  Let(find_method(it, it.instances[ih].class_data, name.lexeme),
      LAMBDA method :
  IF method # 0
    THEN Let(bind(it, method, Instance(ih)), LAMBDA it1 :
         ROk(it1, Callable(Len(it1.functions))))
  ELSE IF name.lexeme \in DOMAIN it.instances[ih].fields
    THEN ROk(it, it.instances[ih].fields[name.lexeme])
    ELSE RErr(it, "Undefined property \"" \o name.lexeme \o "\"."))

instance_get(it, ih, name) ==
  IF name.lexeme \in DOMAIN it.instances[ih].fields
    THEN ROk(it, it.instances[ih].fields[name.lexeme])
  ELSE Let(find_method(it, it.instances[ih].class_data, name.lexeme),
           LAMBDA method :
       IF method # 0
         THEN Let(bind(it, method, Instance(ih)), LAMBDA it1 :
              ROk(it1, Callable(Len(it1.functions))))
         ELSE RErr(it, "Undefined property \"" \o name.lexeme \o "\"."))

\* set writing the field of the instance's class as well
instance_set_shared(it, ih, name, value) ==
  [it EXCEPT !.instances[ih].fields = (name.lexeme :> value) @@ @,
             !.classes[it.instances[ih].class_data].class_fields =
               (name.lexeme :> value) @@ @]

instance_set(it, ih, name, value) ==
  [it EXCEPT !.instances[ih].fields = (name.lexeme :> value) @@ @]

\* fmt::Display for LoxObject
Display(it, v) ==
  CASE v.k = "Boolean" -> IF v.n = 1 THEN "true" ELSE "false"
    [] v.k = "Callable" ->
         "<callable arity " \o NumStr(function_arity(it.functions[v.n])) \o ">"
    [] v.k = "Class" -> it.classes[v.n].name
    [] v.k = "Instance" ->
         it.classes[it.instances[v.n].class_data].name \o " instance"
    [] v.k = "Nil" -> "nil"
    [] v.k = "Number" -> NumStr(v.n)
    [] v.k = "Str" -> v.s
    [] v.k = "Undefined" -> "<undefined>"

(***************************************************************************)
(* interpreter.rs                                                          *)
(* The interpreter is the record `it`: globals, environment (handles),     *)
(* locals, the shared objects (envs, functions, classes, instances), the   *)
(* lines printed so far (out), the history (trace) and the number of loop  *)
(* iterations and calls made (steps).                                      *)
(***************************************************************************)
\* most loop iterations and calls of one run
MaxSteps == 12

Interpreter_new(now) ==
  LET it0 == [globals |-> 1, environment |-> 1, locals |-> <<>>,
              envs |-> <<>>, functions |-> <<NativeClock_new>>,
              classes |-> <<>>, instances |-> <<>>, out |-> <<>>,
              trace |-> <<>>, steps |-> 0, now |-> now,
              borrowed |-> <<>>] IN
  env_define(Environment_new(it0), 1, "clock", Callable(1))

_process_error(r) ==
  Let(r, LAMBDA x :
  CASE x.status = "Break" ->
         RErr(x.it, "A \"break\" statement trickled all the way up to root. Something is horribly wrong.")
    [] x.status = "Return" ->
         RErr(x.it, "A \"return\" statement trickled all the way up to root. Something is horribly wrong.")
    [] OTHER -> x)

look_up_variable(it, name, expr) ==
  IF expr \in DOMAIN it.locals
    THEN Let(env_get_at(it, it.environment, it.locals[expr], name.lexeme),
             LAMBDA r :
         [r EXCEPT !.it = Log(@, Event("local", name.lexeme, it.locals[expr],
                                       IF r.status = "Ok" THEN 1 ELSE 0))])
    ELSE Let(env_get(it, it.globals, name), LAMBDA r :
         [r EXCEPT !.it = Log(@, Event("global", name.lexeme, 0,
                                       IF r.status = "Ok" THEN 1 ELSE 0))])

arithmetic(it, operator, left, right) ==
  IF left.k # "Number" THEN RErr(it, "Left operand not a number.")
  ELSE IF right.k # "Number" THEN RErr(it, "Right operand not a number.")
  ELSE CASE operator.token_type = "Minus" -> ROk(it, Number(left.n - right.n))
         [] operator.token_type = "Slash" ->
              IF right.n # 0 THEN ROk(it, Number(left.n \div right.n))
              ELSE RErr(it, "Attempt to divide by zero.")
         [] operator.token_type = "Star" -> ROk(it, Number(left.n * right.n))
         [] operator.token_type = "Less" -> ROk(it, Boolean(left.n < right.n))
         [] operator.token_type = "LessEqual" ->
              ROk(it, Boolean(left.n <= right.n))
         [] operator.token_type = "Greater" ->
              ROk(it, Boolean(left.n > right.n))
         [] operator.token_type = "GreaterEqual" ->
              ROk(it, Boolean(left.n >= right.n))

\* == comparing any two values
equal_any(it, left, right) == ROk(it, Boolean(left = right))

\* the arm of TokenType::EqualEqual
equal(it, left, right) ==
  IF left.k = "Number"
    THEN IF right.k = "Number" THEN ROk(it, Boolean(left.n = right.n))
         ELSE RErr(it, "Right operand not a number.")
  ELSE IF left.k = "Str"
    THEN IF right.k = "Str" THEN ROk(it, Boolean(left.s = right.s))
         ELSE RErr(it, "Right operand not a string")
  ELSE RErr(it, "Left operand not a number or string.")

\* a last arm that knows !=
not_equal(it, operator, left, right) ==
  IF operator.token_type = "BangEqual"
    THEN ROk(it, Boolean(left # right))
    ELSE RErr(it, "Unrecognized binary operator.")

\* the arm `_` of the match on the operator
unrecognized(it, operator, left, right) ==
  RErr(it, "Unrecognized binary operator.")

binary(it, operator, left, right) ==
  CASE operator.token_type \in {"Minus", "Slash", "Star", "Less", "LessEqual",
                                "Greater", "GreaterEqual"} ->
         arithmetic(it, operator, left, right)
    [] operator.token_type = "Plus" ->
         IF left.k = "Number"
           THEN IF right.k = "Number" THEN ROk(it, Number(left.n + right.n))
                ELSE RErr(it, "Right operand not a number.")
         ELSE IF left.k = "Str"
           THEN CASE right.k = "Str" -> ROk(it, Str(left.s \o right.s))
                  [] right.k = "Number" ->
                       ROk(it, Str(left.s \o NumStr(right.n)))
                  [] right.k = "Boolean" ->
                       ROk(it, Str(left.s \o Display(it, right)))
                  [] right.k = "Nil" -> ROk(it, Str(left.s \o "nil"))
                  [] OTHER -> RErr(it, "Right operand not a string")
         ELSE RErr(it, "Left operand not a number or string.")
    [] operator.token_type = "EqualEqual" -> equal(it, left, right)
    [] OTHER -> unrecognized(it, operator, left, right)

RECURSIVE _evaluate(_, _), evaluate(_, _), execute(_, _),
          execute_block(_, _, _), execute_statements(_, _),
          evaluate_arguments(_, _, _), function_call(_, _, _),
          class_call(_, _, _), while_loop(_, _, _),
          visit_assign_expr(_, _), visit_binary_expr(_, _),
          visit_call_expr(_, _), visit_get_expr(_, _),
          visit_logical_expr(_, _), visit_set_expr(_, _),
          visit_ternary_expr(_, _), visit_unary_expr(_, _),
          visit_block_stmt(_, _), visit_expression_stmt(_, _),
          visit_if_stmt(_, _), visit_print_stmt(_, _),
          visit_return_stmt(_, _), visit_var_stmt(_, _),
          visit_while_stmt(_, _)

evaluate(it, expr) == _process_error(_evaluate(it, expr))

execute_statements(it, stmts) ==
  IF stmts = <<>> THEN ROk(it, Nil)
  ELSE Let(execute(it, Head(stmts)), LAMBDA r :
       IF r.status # "Ok" THEN r
       ELSE Let(Tail(stmts), LAMBDA rest : execute_statements(r.it, rest)))

\* execute_block with the statement loop left by `?`: the previous
\* environment is put back on normal completion only
execute_block_unrestored(it, stmts, env) ==
  Let([it EXCEPT !.environment = env], LAMBDA inner :
  Let(execute_statements(inner, stmts), LAMBDA r :
  Let(IF r.status = "Ok" THEN [r EXCEPT !.it.environment = it.environment]
      ELSE r, LAMBDA restored :
  [restored EXCEPT !.it = Log(@, Event("block", r.status, it.environment,
                                       restored.it.environment))])))

execute_block(it, stmts, env) ==
  Let([it EXCEPT !.environment = env], LAMBDA inner :
  Let(execute_statements(inner, stmts), LAMBDA r :
  Let([r EXCEPT !.it.environment = it.environment], LAMBDA restored :
  [restored EXCEPT !.it = Log(@, Event("block", r.status, it.environment,
                                       restored.it.environment))])))

\* hit: the environment at `distance` exists and already binds the name
assign_local(it, expr, value) ==
  Let(ancestor(it, it.environment, it.locals[expr]), LAMBDA a :
  Let(Log(it, Event("local", expr.name.lexeme, it.locals[expr],
                    IF a # 0 /\ expr.name.lexeme \in DOMAIN it.envs[a].values
                      THEN 1 ELSE 0)), LAMBDA it1 :
  Let(env_assign_at(it1, it1.environment, it.locals[expr], expr.name, value),
      LAMBDA r1 :
  IF r1.status # "Ok" THEN r1 ELSE ROk(r1.it, value))))

assign_global(it, expr, value) ==
  Let(env_assign(it, it.globals, expr.name, value), LAMBDA r1 :
  Let(Log(r1.it, Event("global", expr.name.lexeme, 0,
                       IF r1.status = "Ok" THEN 1 ELSE 0)), LAMBDA it1 :
  IF r1.status # "Ok" THEN [r1 EXCEPT !.it = it1] ELSE ROk(it1, value)))

visit_assign_expr(it, expr) ==
  Let(evaluate(it, expr.value), LAMBDA r :
  IF r.status # "Ok" THEN r
  ELSE IF expr \in DOMAIN r.it.locals
    THEN assign_local(r.it, expr, r.v)
    ELSE assign_global(r.it, expr, r.v))

visit_binary_expr(it, expr) ==
  Let(evaluate(it, expr.left), LAMBDA l :
  IF l.status # "Ok" THEN l
  ELSE Let(evaluate(l.it, expr.right), LAMBDA r :
       IF r.status # "Ok" THEN r ELSE binary(r.it, expr.operator, l.v, r.v)))

\* `for arg in arguments { args.push(self._evaluate(arg)?); }`
evaluate_arguments(it, arguments, args) ==
  IF arguments = <<>> THEN [r |-> ROk(it, Nil), args |-> args]
  ELSE Let(_evaluate(it, Head(arguments)), LAMBDA r :
       IF r.status # "Ok" THEN [r |-> r, args |-> args]
       ELSE Let(Append(args, r.v), LAMBDA pushed :
            Let(Tail(arguments), LAMBDA rest :
            evaluate_arguments(r.it, rest, pushed))))

\* `for i in 0..self.parameters.len() { env.define(.., &arguments[i]); }`
RECURSIVE define_parameters(_, _, _, _)
define_parameters(it, env, parameters, arguments) ==
  IF parameters = <<>> THEN it
  ELSE Let(env_define(it, env, Head(parameters).lexeme, Head(arguments)),
           LAMBDA it1 :
       Let(Tail(parameters), LAMBDA rest :
       Let(Tail(arguments), LAMBDA rest_arguments :
       define_parameters(it1, env, rest, rest_arguments))))

\* the result of a call that hands every returned value through
function_result_as_returned(f, ret) ==
  CASE ret.status = "Ok" ->
         IF f.is_initializer
           THEN env_get_at(ret.it, f.closure, 0, "this")
           ELSE ROk(ret.it, NoObject)
    [] ret.status = "Return" -> ROk(ret.it, ret.v)
    [] OTHER -> ret

\* what the call gives back once the body has run
function_result(f, ret) ==
  CASE ret.status = "Ok" ->
         IF f.is_initializer
           THEN env_get_at(ret.it, f.closure, 0, "this")
           ELSE ROk(ret.it, NoObject)
    [] ret.status = "Return" ->
         IF f.is_initializer
           THEN env_get_at(ret.it, f.closure, 0, "this")
           ELSE ROk(ret.it, ret.v)
    [] OTHER -> ret

\* LoxCallable::call of LoxFunction and of NativeClock
function_call(it, fh, arguments) ==
  IF it.functions[fh].native THEN ROk(it, Number(it.now))
  ELSE IF it.steps >= MaxSteps THEN RErr(it, "<step bound>")
  ELSE
    Let(as_child_of([it EXCEPT !.steps = @ + 1], it.functions[fh].closure),
        LAMBDA it1 :
    Let(define_parameters(it1, NewEnv(it1), it.functions[fh].parameters,
                          arguments), LAMBDA it2 :
    Let(Log(it2, Event("invoke", "", Len(it.functions[fh].parameters),
                       Len(arguments))), LAMBDA it3 :
    Let(execute_block(it3, it.functions[fh].body, NewEnv(it1)), LAMBDA ret :
    Let(function_result(it.functions[fh], ret), LAMBDA result :
    [result EXCEPT !.it = Log(@, Event("returned", result.status, 0, 0))])))))

\* `Ok(Some(LoxObject::Instance(instance)))`, with the fields the instance
\* has by then
class_result(it, ih) ==
  ROk(Log(it, Event("class_call", "", ih,
                    Cardinality(DOMAIN it.instances[ih].fields))),
      Instance(ih))

\* LoxCallable::call of LoxClass.  The Ref of `self.class_data.borrow()` in
\* `if let Some(initializer) = self.class_data.borrow().find_method("init")`
\* lives to the end of the if-let: the class data stays borrowed while the
\* initializer runs.
class_call(it, ch, arguments) ==
  Let(LoxInstance_new(it, ch), LAMBDA it1 :
  Let(find_method(it1, ch, "init"), LAMBDA initializer :
  IF initializer # 0
    THEN Let(bind([it1 EXCEPT !.borrowed = Append(@, ch)], initializer,
                  Instance(Len(it1.instances))), LAMBDA it2 :
         Let(function_call(it2, Len(it2.functions), arguments), LAMBDA r :
         IF r.status = "Panic" THEN r
         ELSE Let([r EXCEPT !.it.borrowed = Pop(@)], LAMBDA released :
              IF released.status # "Ok" THEN released
              ELSE class_result(released.it, Len(it1.instances)))))
    ELSE class_result(it1, Len(it1.instances))))

Expected(arity, n) ==
  "Expected " \o NumStr(arity) \o " arguments but got " \o NumStr(n)

\* `Ok(None) => Ok(LoxObject::Nil)`
value_or_nil(r) ==
  Let(r, LAMBDA x :
  IF x.status # "Ok" THEN x
  ELSE IF x.v = NoObject THEN ROk(x.it, Nil) ELSE x)

visit_call_expr(it, expr) ==
  Let(_evaluate(it, expr.callee), LAMBDA c :
  IF c.status # "Ok" THEN c
  ELSE
    Let(evaluate_arguments(c.it, expr.arguments, <<>>), LAMBDA a :
    IF a.r.status # "Ok" THEN a.r
    ELSE CASE c.v.k = "Callable" ->
           Let(function_arity(a.r.it.functions[c.v.n]), LAMBDA arity :
           IF Len(a.args) # arity
             THEN RErr(a.r.it, Expected(arity, Len(a.args)))
             ELSE value_or_nil(function_call(a.r.it, c.v.n, a.args)))
      [] c.v.k = "Class" ->
           Let(class_arity(a.r.it, c.v.n), LAMBDA arity :
           IF Len(a.args) # arity
             THEN RErr(a.r.it, Expected(arity, Len(a.args)))
             ELSE value_or_nil(class_call(a.r.it, c.v.n, a.args)))
      [] OTHER ->
           RErr(a.r.it, "Callee is not a callable expression (function, method, or class ctor).")))

visit_get_expr(it, expr) ==
  Let(evaluate(it, expr.object), LAMBDA o :
  IF o.status # "Ok" THEN o
  ELSE CASE o.v.k = "Instance" ->
         Let(instance_get(o.it, o.v.n, expr.name), LAMBDA g :
         IF g.status = "Ok" /\ g.v.k = "Callable"
              /\ is_property(g.it.functions[g.v.n])
           THEN value_or_nil(function_call(g.it, g.v.n, <<>>))
           ELSE g)
    [] o.v.k = "Class" -> class_get(o.it, o.v.n, expr.name)
    [] OTHER -> RErr(o.it, "Only instances have properties."))

visit_lambda_expr(it, expr) ==
  Let(AllocFunction(it, new_lambda(expr.parameters, expr.body,
                                   it.environment)), LAMBDA it1 :
  ROk(it1, Callable(Len(it1.functions))))

\* visit_logical_expr evaluating both operands before it chooses
visit_logical_expr_eager(it, expr) ==
  Let(evaluate(it, expr.left), LAMBDA l :
  IF l.status # "Ok" THEN l
  ELSE Let(_evaluate(l.it, expr.right), LAMBDA r :
       IF r.status # "Ok" THEN r
       ELSE CASE expr.operator.token_type = "Or" ->
                   IF is_truthy(l.v) THEN ROk(r.it, l.v) ELSE r
              [] expr.operator.token_type = "And" ->
                   IF ~is_truthy(l.v) THEN ROk(r.it, l.v) ELSE r
              [] OTHER ->
                   RErr(l.it, "Only And and Or are supported conditional operators.")))

visit_logical_expr(it, expr) ==
  Let(evaluate(it, expr.left), LAMBDA l :
  IF l.status # "Ok" THEN l
  ELSE CASE expr.operator.token_type = "Or" ->
              IF is_truthy(l.v) THEN l ELSE _evaluate(l.it, expr.right)
         [] expr.operator.token_type = "And" ->
              IF ~is_truthy(l.v) THEN l ELSE _evaluate(l.it, expr.right)
         [] OTHER ->
              RErr(l.it, "Only And and Or are supported conditional operators."))

visit_set_expr(it, expr) ==
  Let(evaluate(it, expr.object), LAMBDA o :
  IF o.status # "Ok" THEN o
  ELSE IF o.v.k \in {"Instance", "Class"}
    THEN Let(evaluate(o.it, expr.value), LAMBDA r :
         IF r.status # "Ok" THEN r
         ELSE IF o.v.k = "Instance"
           THEN ROk(instance_set(r.it, o.v.n, expr.name, r.v), r.v)
         ELSE IF class_data_borrowed(r.it, o.v.n)
           THEN RPanic(r.it, "already borrowed: BorrowMutError")
           ELSE ROk(class_set(r.it, o.v.n, expr.name, r.v), r.v))
  ELSE RErr(o.it, "Only object instances have fields."))

visit_ternary_expr(it, expr) ==
  Let(evaluate(it, expr.condition), LAMBDA c :
  IF c.status # "Ok" THEN c
  ELSE IF is_truthy(c.v) THEN _evaluate(c.it, expr.then_value)
  ELSE _evaluate(c.it, expr.else_value))

visit_unary_expr(it, expr) ==
  Let(evaluate(it, expr.right), LAMBDA r :
  IF r.status # "Ok" THEN r
  ELSE CASE expr.operator.token_type = "Bang" ->
              ROk(r.it, Boolean(~is_truthy(r.v)))
         [] expr.operator.token_type = "Minus" ->
              IF r.v.k = "Number" THEN ROk(r.it, Number(0 - r.v.n))
              ELSE RErr(r.it, "Unary negative can only be applied to numbers.")
         [] OTHER -> RErr(r.it, "Unsupported unary operator."))

_evaluate(it, expr) ==
  CASE expr.t = "Assign" -> visit_assign_expr(it, expr)
    [] expr.t = "Binary" -> visit_binary_expr(it, expr)
    [] expr.t = "Call" -> visit_call_expr(it, expr)
    [] expr.t = "Get" -> visit_get_expr(it, expr)
    [] expr.t = "Grouping" -> _evaluate(it, expr.expression)
    [] expr.t = "Lambda" -> visit_lambda_expr(it, expr)
    [] expr.t = "Literal" -> ROk(it, from_literal(expr.value))
    [] expr.t = "Logical" -> visit_logical_expr(it, expr)
    [] expr.t = "Set" -> visit_set_expr(it, expr)
    [] expr.t = "Ternary" -> visit_ternary_expr(it, expr)
    [] expr.t = "This" -> look_up_variable(it, expr.keyword, expr)
    [] expr.t = "Unary" -> visit_unary_expr(it, expr)
    [] expr.t = "Variable" -> look_up_variable(it, expr.name, expr)

visit_block_stmt(it, stmt) ==
  Let(as_child_of(it, it.environment), LAMBDA it1 :
  execute_block(it1, stmt.statements, NewEnv(it1)))

\* the two `for method in ..` loops of visit_class_stmt: every function
\* closes over the current environment.
RECURSIVE method_fns(_, _, _, _)
method_fns(it, methods, instance_methods, fns) ==
  IF methods = <<>> THEN [it |-> it, fns |-> fns]
  ELSE Let(Head(methods), LAMBDA m :
       Let(AllocFunction(it, new_function(m.name, m.parameters, m.body,
                           it.environment,
                           instance_methods /\ m.name.lexeme = "init",
                           m.fn_type)), LAMBDA it1 :
       Let((m.name.lexeme :> Len(it1.functions)) @@ fns, LAMBDA inserted :
       Let(Tail(methods), LAMBDA rest :
       method_fns(it1, rest, instance_methods, inserted)))))

visit_class_stmt(it, stmt) ==
  Let(env_define(it, it.environment, stmt.name.lexeme, Nil), LAMBDA it1 :
  Let(method_fns(it1, stmt.methods, TRUE, <<>>), LAMBDA instance_method_fns :
  Let(method_fns(instance_method_fns.it, stmt.class_methods, FALSE, <<>>),
      LAMBDA class_method_fns :
  Let(LoxClass_new(class_method_fns.it, stmt.name.lexeme, 0,
                   instance_method_fns.fns, class_method_fns.fns), LAMBDA it2 :
  env_assign(it2, it2.environment, stmt.name, Class(Len(it2.classes)))))))

visit_expression_stmt(it, stmt) ==
  Let(evaluate(it, stmt.expression), LAMBDA r :
  IF r.status = "Ok" THEN ROk(r.it, Nil) ELSE r)

\* visit_function_stmt closing over a copy of the current environment
visit_function_stmt_snapshot(it, stmt) ==
  Let([it EXCEPT !.envs = Append(@, it.envs[it.environment])], LAMBDA it0 :
  Let(AllocFunction(it0, new_function(stmt.name, stmt.parameters, stmt.body,
                                      NewEnv(it0), FALSE, stmt.fn_type)),
      LAMBDA it1 :
  ROk(env_define(it1, it1.environment, stmt.name.lexeme,
                 Callable(Len(it1.functions))), Nil)))

visit_function_stmt(it, stmt) ==
  Let(AllocFunction(it, new_function(stmt.name, stmt.parameters, stmt.body,
                                     it.environment, FALSE, stmt.fn_type)),
      LAMBDA it1 :
  ROk(env_define(it1, it1.environment, stmt.name.lexeme,
                 Callable(Len(it1.functions))), Nil))

visit_if_stmt(it, stmt) ==
  Let(evaluate(it, stmt.condition), LAMBDA c :
  IF c.status # "Ok" THEN c
  ELSE IF is_truthy(c.v) THEN execute(c.it, stmt.then_branch)
  ELSE IF IsSome(stmt.else_branch)
    THEN execute(c.it, Unwrap(stmt.else_branch))
  ELSE ROk(c.it, Nil))

visit_print_stmt(it, stmt) ==
  Let(evaluate(it, stmt.expression), LAMBDA r :
  IF r.status # "Ok" THEN r
  ELSE ROk([r.it EXCEPT !.out = Append(@, Display(r.it, r.v))], Nil))

visit_return_stmt(it, stmt) ==
  IF IsSome(stmt.value)
    THEN Let(_evaluate(it, Unwrap(stmt.value)), LAMBDA r :
         IF r.status # "Ok" THEN r ELSE RReturn(r.it, r.v))
    ELSE RReturn(it, NoObject)

visit_var_stmt(it, stmt) ==
  IF IsSome(stmt.initializer)
    THEN Let(evaluate(it, Unwrap(stmt.initializer)), LAMBDA r :
         IF r.status # "Ok" THEN r
         ELSE ROk(env_define(r.it, r.it.environment, stmt.name.lexeme, r.v),
                  Nil))
    ELSE ROk(env_define(it, it.environment, stmt.name.lexeme, Undefined), Nil)

\* `while self.evaluate(condition)?.is_truthy() { match self.execute(body) .. }`
\* visit_while_stmt handing a Break on to its caller instead of ending
while_loop_unbroken(it, condition, body) ==
  Let(evaluate(it, condition), LAMBDA c :
  IF c.status # "Ok" THEN c
  ELSE IF ~is_truthy(c.v) THEN ROk(c.it, Nil)
  ELSE IF c.it.steps >= MaxSteps THEN RErr(c.it, "<step bound>")
  ELSE Let([c.it EXCEPT !.steps = @ + 1], LAMBDA it1 :
       Let(execute(it1, body), LAMBDA r :
       IF r.status = "Ok" THEN while_loop(r.it, condition, body) ELSE r)))

while_loop(it, condition, body) ==
  Let(evaluate(it, condition), LAMBDA c :
  IF c.status # "Ok" THEN c
  ELSE IF ~is_truthy(c.v) THEN ROk(c.it, Nil)
  ELSE IF c.it.steps >= MaxSteps THEN RErr(c.it, "<step bound>")
  ELSE Let([c.it EXCEPT !.steps = @ + 1], LAMBDA it1 :
       Let(execute(it1, body), LAMBDA r :
       CASE r.status = "Ok" -> while_loop(r.it, condition, body)
         [] r.status \in {"Error", "Panic"} -> r
         [] r.status = "Break" ->
              ROk(Log(r.it, Event("loop_break", "", 0, 0)), Nil)
         [] r.status = "Return" -> r)))

visit_while_stmt(it, stmt) == while_loop(it, stmt.condition, stmt.body)

execute(it, stmt) ==
  CASE stmt.t = "Block" -> visit_block_stmt(it, stmt)
    [] stmt.t = "Break" -> RBreak(it)
    [] stmt.t = "Class" -> visit_class_stmt(it, stmt)
    [] stmt.t = "Expression" -> visit_expression_stmt(it, stmt)
    [] stmt.t = "Function" -> visit_function_stmt(it, stmt)
    [] stmt.t = "If" -> visit_if_stmt(it, stmt)
    [] stmt.t = "Print" -> visit_print_stmt(it, stmt)
    [] stmt.t = "Return" -> visit_return_stmt(it, stmt)
    [] stmt.t = "Var" -> visit_var_stmt(it, stmt)
    [] stmt.t = "While" -> visit_while_stmt(it, stmt)

\* the whole of Interpreter::interpret, as one function of the program
RECURSIVE interpret(_, _)
interpret(it, stmts) ==
  IF stmts = <<>> THEN ROk(it, Nil)
  ELSE Let(execute(it, Head(stmts)), LAMBDA r :
       IF r.status # "Ok" THEN _process_error(r)
       ELSE Let(Tail(stmts), LAMBDA rest : interpret(r.it, rest)))

(***************************************************************************)
(* The programs the driver is run on: sequences of lexemes, the lexeme     *)
(* "\n" ending a source line.                                              *)
(***************************************************************************)
RECURSIVE Lines(_)
Lines(ls) ==
  IF ls = <<>> THEN <<>>
  ELSE IF Len(ls) = 1 THEN ls[1]
  ELSE ls[1] \o <<"\n">> \o Lines(Tail(ls))

RECURSIVE CommaList(_)
CommaList(xs) ==
  IF Len(xs) <= 1 THEN xs ELSE <<xs[1], ",">> \o CommaList(Tail(xs))

\* most parameters of a declared callable and most arguments of a call
MaxArity == 2
ParameterNames == <<"a", "b", "c", "d">>
ArgumentLexemes == <<"1", "2", "3", "7">>
Params(k) == CommaList(SubSeq(ParameterNames, 1, k))
Args(n) == CommaList(SubSeq(ArgumentLexemes, 1, n))

\* a body that prints "in" and then reads each of its k parameters
Body(k) ==
  <<<<"print", "\"in\"", ";">>>> \o [i \in 1..k |-> <<ParameterNames[i], ";">>]

CallKinds == {"function", "lambda", "method", "class"}

\* a callable of the given kind with k parameters, called with n arguments
CallProgram(kind, k, n) ==
  CASE kind = "function" ->
         Lines(<<<<"fun", "f", "(">> \o Params(k) \o <<")", "{">>>>
               \o Body(k)
               \o <<<<"}">>,
                    <<"print", "f", "(">> \o Args(n) \o <<")", ";">>>>)
    [] kind = "lambda" ->
         Lines(<<<<"var", "f", "=", "fun", "(">> \o Params(k) \o <<")", "{">>>>
               \o Body(k)
               \o <<<<"}", ";">>,
                    <<"print", "f", "(">> \o Args(n) \o <<")", ";">>>>)
    [] kind = "method" ->
         Lines(<<<<"class", "C", "{">>,
                 <<"m", "(">> \o Params(k) \o <<")", "{">>>>
               \o Body(k)
               \o <<<<"}">>, <<"}">>,
                    <<"print", "C", "(", ")", ".", "m", "(">> \o Args(n)
                      \o <<")", ";">>>>)
    [] kind = "class" ->
         Lines(<<<<"class", "C", "{">>,
                 <<"init", "(">> \o Params(k) \o <<")", "{">>>>
               \o Body(k)
               \o <<<<"}">>, <<"}">>,
                    <<"print", "C", "(">> \o Args(n) \o <<")", ";">>>>)

\* the native function clock, called with n arguments
ClockProgram(n) == <<"print", "clock", "(">> \o Args(n) \o <<")", ";">>

CallPrograms ==
  {CallProgram(kind, k, n) : kind \in CallKinds, k \in 0..MaxArity,
                             n \in 0..MaxArity}
  \cup {ClockProgram(n) : n \in 0..MaxArity}

Scopes == {"global", "block", "function", "lambda", "method"}
Usages == {"none", "read", "assign"}

\* `var c = 3;` declared in the given scope, then not used, read or assigned
ScopeProgram(scope, usage) ==
  LET use == CASE usage = "none" -> <<>>
               [] usage = "read" -> <<<<"print", "c", ";">>>>
               [] usage = "assign" -> <<<<"c", "=", "1", ";">>>>
      decl == <<<<"var", "c", "=", "3", ";">>>> \o use IN
  CASE scope = "global" -> Lines(decl)
    [] scope = "block" -> Lines(<<<<"{">>>> \o decl \o <<<<"}">>>>)
    [] scope = "function" ->
         Lines(<<<<"fun", "f", "(", ")", "{">>>> \o decl \o <<<<"}">>>>)
    [] scope = "lambda" ->
         Lines(<<<<"var", "f", "=", "fun", "(", ")", "{">>>> \o decl
               \o <<<<"}", ";">>>>)
    [] scope = "method" ->
         Lines(<<<<"class", "C", "{">>, <<"m", "(", ")", "{">>>> \o decl
               \o <<<<"}">>, <<"}">>>>)

ScopePrograms == {ScopeProgram(scope, usage) : scope \in Scopes,
                                               usage \in Usages}

\* deepest nesting of blocks and if-statements around a break or a return
MaxDepth == 2

\* the statement (given as lines) inside d blocks and if-statements
RECURSIVE Wrap(_, _)
Wrap(d, ls) ==
  IF d = 0 THEN ls
  ELSE IF d % 2 = 1 THEN <<<<"{">>>> \o Wrap(d - 1, ls) \o <<<<"}">>>>
  ELSE <<<<"if", "(", "true", ")">>>> \o Wrap(d - 1, ls)

\* two nested loops, the inner one left by a break at depth d
BreakProgram(d) ==
  Lines(<<<<"var", "i", "=", "0", ";">>,
          <<"while", "(", "i", "<", "2", ")", "{">>,
          <<"var", "j", "=", "0", ";">>,
          <<"while", "(", "true", ")", "{">>,
          <<"if", "(", "j", "==", "1", ")">>>>
        \o Wrap(d, <<<<"break", ";">>>>)
        \o <<<<"print", "\"in\"", ";">>,
             <<"j", "=", "j", "+", "1", ";">>,
             <<"}">>,
             <<"print", "\"out\"", ";">>,
             <<"i", "=", "i", "+", "1", ";">>,
             <<"}">>,
             <<"print", "\"end\"", ";">>>>)

\* a function left by a return at depth d inside two loops
ReturnProgram(d) ==
  Lines(<<<<"fun", "f", "(", ")", "{">>,
          <<"while", "(", "true", ")", "{">>,
          <<"while", "(", "true", ")">>>>
        \o Wrap(d, <<<<"return", "7", ";">>>>)
        \o <<<<"print", "\"in\"", ";">>,
             <<"}">>,
             <<"print", "\"in\"", ";">>,
             <<"}">>,
             <<"print", "f", "(", ")", ";">>,
             <<"print", "\"out\"", ";">>>>)

ControlPrograms ==
  {BreakProgram(d) : d \in 0..MaxDepth} \cup {ReturnProgram(d) : d \in 0..MaxDepth}

\* locals read and assigned through nested blocks
NestedBlocks ==
  <<"{", "\n", "var", "a", "=", "1", ";", "\n", "{", "\n", "var", "b", "=",
    "2", ";", "\n", "{", "\n", "print", "a", "+", "b", ";", "\n", "a", "=",
    "3", ";", "\n", "}", "\n", "print", "a", ";", "\n", "}", "\n", "}">>

\* parameters and locals of a function and of a lambda
FunctionLocals ==
  <<"fun", "add", "(", "a", ",", "b", ")", "{", "\n", "var", "c", "=", "a",
    "+", "b", ";", "\n", "{", "\n", "return", "c", ";", "\n", "}", "\n", "}",
    "\n", "print", "add", "(", "1", ",", "2", ")", ";", "\n", "var", "twice",
    "=", "fun", "(", "n", ")", "{", "\n", "return", "n", "+", "n", ";", "\n",
    "}", ";", "\n", "print", "twice", "(", "2", ")", ";">>

\* `this`, a parameter, a local and an enclosing local inside a method
MethodLocals ==
  <<"{", "\n", "var", "k", "=", "2", ";", "\n", "class", "Foo", "{", "\n",
    "init", "(", "w", ")", "{", "\n", "this", ".", "w", "=", "w", ";", "\n",
    "}", "\n", "what", "(", "n", ")", "{", "\n", "var", "t", "=", "this",
    ".", "w", "+", "n", ";", "\n", "return", "t", "+", "k", ";", "\n", "}",
    "\n", "}", "\n", "print", "Foo", "(", "1", ")", ".", "what", "(", "7",
    ")", ";", "\n", "}">>

\* an enclosing local read inside a class method
ClassMethodLocals ==
  <<"{", "\n", "var", "k", "=", "2", ";", "\n", "class", "Math", "{", "\n",
    "class", "sq", "(", "x", ")", "{", "\n", "return", "k", ";", "\n", "}",
    "\n", "}", "\n", "print", "k", ";", "\n", "print", "Math", ".", "sq",
    "(", "3", ")", ";", "\n", "}">>

\* one name read at two depths on one source line
SameLine ==
  <<"{", "var", "a", "=", "1", ";", "{", "print", "a", ";", "}", "print",
    "a", ";", "}">>

\* a local assigned inside its own initializer
OwnInitializer ==
  <<"{", "\n", "var", "x", "=", "x", "=", "1", ";", "\n", "print", "x", ";",
    "\n", "}">>

\* blocks and a call left by Break, by Return, normally and by an error
AllExits ==
  <<"fun", "f", "(", ")", "{", "\n", "while", "(", "true", ")", "{", "\n",
    "{", "\n", "break", ";", "\n", "}", "\n", "}", "\n", "{", "\n", "return",
    "1", ";", "\n", "}", "\n", "}", "\n", "print", "f", "(", ")", ";", "\n",
    "{", "\n", "print", "2", ";", "\n", "}", "\n",
    "{", "\n", "print", "1", "+", "nil", ";", "\n", "}">>

\* a global declared without initializer, then read
UndefinedGlobal ==
  <<"var", "x", ";", "\n", "print", "x", ";">>

\* a local declared without initializer, then read
UndefinedLocal ==
  <<"{", "\n", "var", "x", ";", "\n", "print", "x", ";", "\n", "}">>

\* a call with too few arguments
ArityScenario ==
  <<"fun", "two", "(", "a", ",", "b", ")", "{", "}", "\n", "two", "(", "1",
    ")", ";">>

\* a method value called before and after a field write
MethodBinding ==
  <<"class", "Foo", "{", "init", "(", "w", ")", "{", "this", ".", "w", "=",
    "w", ";", "}", "what", "(", ")", "{", "return", "this", ".", "w", ";",
    "}", "}", "\n", "var", "foo", "=", "Foo", "(", "\"bar\"", ")", ";",
    "var", "m", "=", "foo", ".", "what", ";", "\n", "print", "m", "(", ")",
    ";", "foo", ".", "w", "=", "\"baz\"", ";", "print", "m", "(", ")", ";">>

\* the method value stored in a field of another instance
MethodBindingTwo ==
  <<"class", "Foo", "{", "\n", "init", "(", "w", ")", "{", "\n", "this", ".",
    "w", "=", "w", ";", "\n", "}", "\n", "what", "(", ")", "{", "\n",
    "return", "this", ".", "w", ";", "\n", "}", "\n", "}", "\n", "var",
    "foo", "=", "Foo", "(", "\"bar\"", ")", ";", "\n", "var", "other", "=",
    "Foo", "(", "\"out\"", ")", ";", "\n", "var", "m", "=", "foo", ".",
    "what", ";", "\n", "other", ".", "what", "=", "m", ";", "\n", "print",
    "other", ".", "what", "(", ")", ";", "\n", "foo", ".", "w", "=",
    "\"baz\"", ";", "\n", "print", "m", "(", ")", ";", "\n", "print",
    "other", ".", "what", "(", ")", ";", "\n", "print", "foo", ".", "what",
    "(", ")", ";">>

\* a member declared without parameter list
PropertyScenario ==
  <<"class", "M", "{", "init", "(", "f", ")", "{", "this", ".", "_f", "=",
    "f", ";", "}", "foo", "{", "return", "this", ".", "_f", ";", "}", "}",
    "\n", "print", "M", "(", "7", ")", ".", "foo", ";">>

\* class methods, class fields and instance fields
ClassFieldScenario ==
  <<"class", "Math", "{", "class", "sq", "(", "x", ")", "{", "return", "x",
    "*", "x", ";", "}", "}", "\n", "print", "Math", ".", "sq", "(", "3", ")",
    ";", "\n", "class", "Foo", "{", "}", "Foo", ".", "v", "=", "10", ";",
    "print", "Foo", ".", "v", ";", "\n", "var", "f", "=", "Foo", "(", ")",
    ";", "f", ".", "v", "=", "11", ";", "print", "f", ".", "v", ";", "print",
    "Foo", ".", "v", ";">>

\* a function body with a local that is never used
UnusedLocalScenario ==
  <<"fun", "f", "(", ")", "{", "var", "c", "=", "3", ";", "}">>

\* a program the parser rejects
ParseFailure ==
  <<"var", ";">>

\* a single expression statement
SingleExpression ==
  <<"1", "+", "2", ";">>

\* a single expression statement that fails
SingleExpressionFailure ==
  <<"1", "+", "nil", ";">>

\* a break outside every loop
TopLevelBreak ==
  <<"print", "\"in\"", ";", "\n", "break", ";", "\n", "print", "\"out\"",
    ";">>

\* a return outside every function
TopLevelReturn ==
  <<"print", "\"in\"", ";", "\n", "return", "1", ";", "\n", "print",
    "\"out\"", ";">>

\* a break inside a function called from a loop
BreakThroughCall ==
  <<"fun", "f", "(", ")", "{", "\n", "break", ";", "\n", "}", "\n", "while",
    "(", "true", ")", "{", "\n", "f", "(", ")", ";", "\n", "}">>

\* a return inside a call made by another call
NestedReturn ==
  <<"fun", "g", "(", ")", "{", "\n", "return", "1", ";", "\n", "}", "\n",
    "fun", "f", "(", ")", "{", "\n", "print", "g", "(", ")", ";", "\n",
    "print", "\"in\"", ";", "\n", "return", "2", ";", "\n", "}", "\n",
    "print", "f", "(", ")", ";">>

\* values a captured variable is re-assigned to
ClosureValues == {"2", "7"}

\* a variable captured by a function and by a lambda, re-assigned to v from
\* outside and then incremented by the lambda; in a block when `local`
ClosureProgram(local, v) ==
  LET ls == <<<<"var", "x", "=", "1", ";">>,
              <<"fun", "f", "(", ")", "{">>,
              <<"return", "x", ";">>,
              <<"}">>,
              <<"var", "g", "=", "fun", "(", ")", "{">>,
              <<"x", "=", "x", "+", "1", ";">>,
              <<"}", ";">>,
              <<"print", "f", "(", ")", ";">>,
              <<"x", "=", v, ";">>,
              <<"print", "f", "(", ")", ";">>,
              <<"g", "(", ")", ";">>,
              <<"print", "f", "(", ")", ";">>,
              <<"print", "x", ";">>>> IN
  IF local THEN Lines(<<<<"{">>>> \o ls \o <<<<"}">>>>) ELSE Lines(ls)

ClosurePrograms ==
  {ClosureProgram(local, v) : local \in BOOLEAN, v \in ClosureValues}

Initializers == {"none", "var", "expr"}
Conditions == {"none", "cond"}
Bodies == {"stmt", "block"}

\* what precedes the loop: the sum s, and the counter i unless the loop
\* declares it
LoopPrefix(I) ==
  <<<<"var", "s", "=", "0", ";">>>>
  \o (CASE I = "none" -> <<<<"var", "i", "=", "0", ";">>>>
        [] I = "var" -> <<>>
        [] I = "expr" -> <<<<"var", "i", "=", "7", ";">>>>)

LoopInitializer(I) ==
  CASE I = "none" -> <<>>
    [] I = "var" -> <<"var", "i", "=", "0">>
    [] I = "expr" -> <<"i", "=", "0">>

LoopCondition(C) == IF C = "cond" THEN <<"i", "<", "2">> ELSE <<>>

\* the body B; without a condition it is the body that leaves the loop
LoopBody(C, B) ==
  LET guard == IF C = "cond" THEN <<>>
               ELSE <<<<"if", "(", "i", "==", "2", ")", "break", ";">>>> IN
  IF B = "stmt" /\ C = "cond" THEN <<<<"print", "i", ";">>>>
  ELSE IF B = "stmt"
    THEN <<<<"if", "(", "i", "==", "2", ")", "break", ";">>,
           <<"else", "print", "i", ";">>>>
  ELSE <<<<"{">>>> \o guard
       \o <<<<"print", "i", ";">>, <<"s", "=", "s", "+", "i", ";">>, <<"}">>>>

LoopSuffix == <<<<"print", "s", ";">>>>

\* `for (I; C; i = i + 1) B`
ForProgram(I, C, B) ==
  Lines(LoopPrefix(I)
        \o <<<<"for", "(">> \o LoopInitializer(I) \o <<";">>,
             LoopCondition(C) \o <<";">>,
             <<"i", "=", "i", "+", "1", ")">>>>
        \o LoopBody(C, B) \o LoopSuffix)

\* `{ I; while (C) { B i = i + 1; } }`
WhileProgram(I, C, B) ==
  Lines(LoopPrefix(I)
        \o (IF I = "none" THEN <<>>
            ELSE <<<<"{">>, LoopInitializer(I) \o <<";">>>>)
        \o <<<<"while", "(">>
               \o (IF C = "cond" THEN LoopCondition(C) ELSE <<"true">>)
               \o <<")", "{">>>>
        \o LoopBody(C, B)
        \o <<<<"i", "=", "i", "+", "1", ";">>, <<"}">>>>
        \o (IF I = "none" THEN <<>> ELSE <<<<"}">>>>)
        \o LoopSuffix)

ForPrograms ==
  {ForProgram(I, C, B) : I \in Initializers, C \in Conditions, B \in Bodies}
WhilePrograms ==
  {WhileProgram(I, C, B) : I \in Initializers, C \in Conditions, B \in Bodies}

\* the for loop of the resolver's own tests, on one source line
ForOneLine ==
  <<"for", "(", "var", "i", "=", "0", ";", "i", "<", "2", ";", "i", "=", "i",
    "+", "1", ")", "print", "i", ";">>

\* the same loop in its while form, one statement a line
WhileManyLines ==
  Lines(<<<<"{">>,
          <<"var", "i", "=", "0", ";">>,
          <<"while", "(", "i", "<", "2", ")", "{">>,
          <<"print", "i", ";">>,
          <<"i", "=", "i", "+", "1", ";">>,
          <<"}">>,
          <<"}">>>>)

\* operands of a logical expression, and how each prints
Operands == {"true", "false", "nil", "0", "\"bar\""}
RightOperands == {"7", "nil"}
Shown(lexeme) == IF lexeme = "\"bar\"" THEN "bar" ELSE lexeme
LogicalOperators == {"or", "and"}

\* `a() op b()`, where a counts 1 and b counts 10 each time it is called
LogicalProgram(op, A, B) ==
  Lines(<<<<"var", "n", "=", "0", ";">>,
          <<"fun", "a", "(", ")", "{">>,
          <<"n", "=", "n", "+", "1", ";">>,
          <<"return", A, ";">>,
          <<"}">>,
          <<"fun", "b", "(", ")", "{">>,
          <<"n", "=", "n", "+", "10", ";">>,
          <<"return", B, ";">>,
          <<"}">>,
          <<"print", "a", "(", ")", op, "b", "(", ")", ";">>,
          <<"print", "n", ";">>>>)

LogicalPrograms ==
  {LogicalProgram(op, A, B) : op \in LogicalOperators, A \in Operands,
                              B \in RightOperands}

\* an unexpected character between two numbers
UnexpectedCharacter ==
  <<"print", "1", ";", "\n", "var", "a", "=", "1", "@", "2", ";">>

\* a string without closing quote, followed by more text
UnterminatedString ==
  <<"print", "\"in\"", ";", "\n", "print", "\"bar", ";", "\n", "print", "1",
    ";">>

\* an unexpected character inside an unterminated string
UnexpectedInString ==
  <<"1", "+", "2", ";", "\n", "\"in", "#", "\n", ";">>

ScanPrograms == {UnexpectedCharacter, UnterminatedString, UnexpectedInString}

ReturnValues == {"none", "value"}
ReturnStatement(v) ==
  IF v = "value" THEN <<"return", "1", ";">> ELSE <<"return", ";">>

PlacesOutside == {"top", "block", "if", "while", "after"}
PlacesInside == {"function", "lambda", "method", "nested"}

\* a return statement, with or without value, at the given place
ReturnPlacement(place, v) ==
  CASE place = "top" -> Lines(<<<<"print", "1", ";">>, ReturnStatement(v)>>)
    [] place = "block" -> Lines(<<<<"{">>, ReturnStatement(v), <<"}">>>>)
    [] place = "if" ->
         Lines(<<<<"if", "(", "true", ")">>, ReturnStatement(v)>>)
    [] place = "while" ->
         Lines(<<<<"while", "(", "true", ")", "{">>, ReturnStatement(v),
                 <<"}">>>>)
    [] place = "after" ->
         Lines(<<<<"fun", "f", "(", ")", "{">>, <<"}">>, ReturnStatement(v)>>)
    [] place = "function" ->
         Lines(<<<<"fun", "f", "(", ")", "{">>, ReturnStatement(v), <<"}">>>>)
    [] place = "lambda" ->
         Lines(<<<<"var", "f", "=", "fun", "(", ")", "{">>, ReturnStatement(v),
                 <<"}", ";">>>>)
    [] place = "method" ->
         Lines(<<<<"class", "C", "{">>, <<"m", "(", ")", "{">>,
                 ReturnStatement(v), <<"}">>, <<"}">>>>)
    [] place = "nested" ->
         Lines(<<<<"fun", "f", "(", ")", "{">>,
                 <<"while", "(", "true", ")", "{">>,
                 <<"if", "(", "true", ")", "{">>, ReturnStatement(v),
                 <<"}">>, <<"}">>, <<"}">>>>)

ReturnPlacements ==
  {ReturnPlacement(place, v) : place \in PlacesOutside \cup PlacesInside,
                               v \in ReturnValues}

InitBodies == {"normal", "bare", "value"}

\* a class whose initializer completes normally, leaves by `return;`, or
\* returns a value; the initializer is then called again on the instance
InitProgram(body) ==
  Lines(<<<<"class", "C", "{">>,
          <<"init", "(", ")", "{">>,
          <<"this", ".", "x", "=", "7", ";">>,
          CASE body = "normal" -> <<>>
            [] body = "bare" -> <<"return", ";">>
            [] body = "value" -> <<"return", "1", ";">>,
          IF body = "bare" THEN <<"this", ".", "x", "=", "0", ";">> ELSE <<>>,
          <<"}">>,
          <<"}">>,
          <<"var", "c", "=", "C", "(", ")", ";">>,
          <<"print", "c", ".", "x", ";">>,
          <<"var", "d", "=", "c", ".", "init", "(", ")", ";">>,
          <<"d", ".", "x", "=", "3", ";">>,
          <<"print", "c", ".", "x", ";">>>>)

InitPrograms == {InitProgram(body) : body \in InitBodies}

BreaksOutside ==
  {"top", "block", "if", "after_loop", "function", "function_in_loop",
   "lambda_in_loop", "called_in_loop"}
BreaksInside ==
  {"loop", "loop_block", "loop_if", "for", "loop_in_function",
   "after_function_in_loop"}

\* a break statement at the given place
BreakPlacement(place) ==
  CASE place = "top" -> Lines(<<<<"print", "1", ";">>, <<"break", ";">>>>)
    [] place = "block" -> Lines(<<<<"{">>, <<"break", ";">>, <<"}">>>>)
    [] place = "if" ->
         Lines(<<<<"if", "(", "true", ")">>, <<"break", ";">>>>)
    [] place = "after_loop" ->
         Lines(<<<<"while", "(", "false", ")", "{">>, <<"}">>,
                 <<"break", ";">>>>)
    [] place = "function" ->
         Lines(<<<<"fun", "f", "(", ")", "{">>, <<"break", ";">>, <<"}">>>>)
    [] place = "function_in_loop" ->
         Lines(<<<<"while", "(", "true", ")", "{">>,
                 <<"fun", "f", "(", ")", "{">>, <<"break", ";">>, <<"}">>,
                 <<"f", "(", ")", ";">>,
                 <<"break", ";">>, <<"}">>>>)
    [] place = "lambda_in_loop" ->
         Lines(<<<<"while", "(", "true", ")", "{">>,
                 <<"var", "f", "=", "fun", "(", ")", "{">>, <<"break", ";">>,
                 <<"}", ";">>,
                 <<"f", "(", ")", ";">>,
                 <<"break", ";">>, <<"}">>>>)
    [] place = "called_in_loop" ->
         Lines(<<<<"fun", "f", "(", ")", "{">>, <<"break", ";">>, <<"}">>,
                 <<"while", "(", "true", ")", "{">>,
                 <<"f", "(", ")", ";">>,
                 <<"break", ";">>, <<"}">>>>)
    [] place = "loop" ->
         Lines(<<<<"while", "(", "true", ")">>, <<"break", ";">>>>)
    [] place = "loop_block" ->
         Lines(<<<<"while", "(", "true", ")", "{">>, <<"break", ";">>,
                 <<"}">>>>)
    [] place = "loop_if" ->
         Lines(<<<<"while", "(", "true", ")", "{">>,
                 <<"if", "(", "true", ")", "{">>, <<"break", ";">>,
                 <<"}">>, <<"}">>>>)
    [] place = "for" ->
         Lines(<<<<"for", "(", ";", ";", ")", "{">>, <<"break", ";">>,
                 <<"}">>>>)
    [] place = "loop_in_function" ->
         Lines(<<<<"fun", "f", "(", ")", "{">>,
                 <<"while", "(", "true", ")", "{">>, <<"break", ";">>,
                 <<"}">>, <<"}">>>>)
    [] place = "after_function_in_loop" ->
         Lines(<<<<"while", "(", "true", ")", "{">>,
                 <<"fun", "f", "(", ")", "{">>, <<"}">>,
                 <<"f", "(", ")", ";">>,
                 <<"break", ";">>, <<"}">>>>)

BreakPlacements ==
  {BreakPlacement(place) : place \in BreaksOutside \cup BreaksInside}

Declarations == {"var", "fun", "class"}

\* one declaration of the name `a` of the given kind
Declaration(kind, n) ==
  CASE kind = "var" -> <<"var", "a", "=", n, ";">>
    [] kind = "fun" -> <<"fun", "a", "(", ")", "{", "}">>
    [] kind = "class" -> <<"class", "a", "{", "}">>

\* `a` declared twice in one block
LocalRedeclaration(first, second) ==
  Lines(<<<<"{">>, Declaration(first, "1"), Declaration(second, "2"),
          <<"print", "a", ";">>, <<"}">>>>)

\* `a` declared twice at global scope
GlobalRedeclaration(first, second) ==
  Lines(<<Declaration(first, "1"), Declaration(second, "2"),
          <<"print", "a", ";">>>>)

\* a parameter named twice
ParameterTwice ==
  Lines(<<<<"fun", "f", "(", "a", ",", "a", ")", "{">>,
          <<"print", "a", ";">>, <<"}">>>>)

\* a parameter declared again at the top of the body
ParameterAndLocal(kind) ==
  Lines(<<<<"fun", "f", "(", "a", ")", "{">>, Declaration(kind, "1"),
          <<"print", "a", ";">>, <<"}">>>>)

\* `a` declared again in a nested block
ShadowingBlock ==
  Lines(<<<<"{">>, <<"var", "a", "=", "1", ";">>,
          <<"{">>, <<"var", "a", "=", "2", ";">>, <<"print", "a", ";">>,
          <<"}">>,
          <<"print", "a", ";">>, <<"}">>>>)

\* a parameter declared again in a block of the body
ShadowingParameter ==
  Lines(<<<<"fun", "f", "(", "a", ")", "{">>,
          <<"{">>, <<"var", "a", "=", "2", ";">>, <<"print", "a", ";">>,
          <<"}">>,
          <<"print", "a", ";">>, <<"}">>,
          <<"f", "(", "1", ")", ";">>>>)

Redeclared ==
  {LocalRedeclaration(first, second) : first \in Declarations,
                                       second \in Declarations}
    \cup {ParameterAndLocal(kind) : kind \in Declarations}
    \cup {ParameterTwice}

Shadowed == {ShadowingBlock, ShadowingParameter}

GloballyRedeclared ==
  {GlobalRedeclaration(first, second) : first \in Declarations,
                                        second \in Declarations}

DeclarationPrograms == Redeclared \cup Shadowed \cup GloballyRedeclared

ThisOutside == {"top", "function", "lambda", "after_class",
                "function_after_class"}
ThisInside == {"method", "init", "block_in_method", "function_in_method"}

ClassUsingThis ==
  <<<<"class", "C", "{">>, <<"m", "(", ")", "{">>,
    <<"return", "this", ";">>, <<"}">>, <<"}">>>>

\* the body of a method of C, the class made and the method called
MethodUsingThis(body) ==
  Lines(<<<<"class", "C", "{">>, <<"m", "(", ")", "{">>>> \o body \o
        <<<<"}">>, <<"}">>,
          <<"var", "c", "=", "C", "(", ")", ";">>,
          <<"c", ".", "x", "=", "7", ";">>,
          <<"print", "c", ".", "m", "(", ")", ".", "x", ";">>>>)

\* a `this` expression at the given place
ThisPlacement(place) ==
  CASE place = "top" -> Lines(<<<<"print", "1", ";">>,
                               <<"print", "this", ";">>>>)
    [] place = "function" ->
         Lines(<<<<"fun", "f", "(", ")", "{">>, <<"return", "this", ";">>,
                 <<"}">>>>)
    [] place = "lambda" ->
         Lines(<<<<"var", "f", "=", "fun", "(", ")", "{">>,
                 <<"return", "this", ";">>, <<"}", ";">>>>)
    [] place = "after_class" ->
         Lines(ClassUsingThis \o <<<<"print", "this", ";">>>>)
    [] place = "function_after_class" ->
         Lines(ClassUsingThis \o
               <<<<"fun", "f", "(", ")", "{">>, <<"return", "this", ";">>,
                 <<"}">>>>)
    [] place = "method" -> MethodUsingThis(<<<<"return", "this", ";">>>>)
    [] place = "init" ->
         Lines(<<<<"class", "C", "{">>, <<"init", "(", ")", "{">>,
                 <<"this", ".", "x", "=", "7", ";">>, <<"}">>, <<"}">>,
                 <<"print", "C", "(", ")", ".", "x", ";">>>>)
    [] place = "block_in_method" ->
         MethodUsingThis(<<<<"{">>, <<"return", "this", ";">>, <<"}">>>>)
    [] place = "function_in_method" ->
         MethodUsingThis(<<<<"fun", "g", "(", ")", "{">>,
                           <<"return", "this", ";">>, <<"}">>,
                           <<"return", "g", "(", ")", ";">>>>)

ThisPlacements ==
  {ThisPlacement(place) : place \in ThisOutside \cup ThisInside}

InitializerReads == {"direct", "operand", "argument", "lambda", "called_lambda"}

\* the initializer of the local x reads x at the given place
InitializerReading(place) ==
  Lines(<<<<"{">>,
          CASE place = "direct" -> <<"var", "x", "=", "x", ";">>
            [] place = "operand" -> <<"var", "x", "=", "1", "+", "x", ";">>
            [] place = "argument" ->
                 <<"var", "x", "=", "clock", "(", "x", ")", ";">>
            [] place = "lambda" ->
                 <<"var", "x", "=", "fun", "(", ")", "{", "return", "x", ";",
                   "}", ";">>
            [] place = "called_lambda" ->
                 <<"var", "x", "=", "fun", "(", ")", "{", "return", "x", ";",
                   "}", "(", ")", ";">>,
          <<"print", "x", ";">>, <<"}">>>>)

\* x is read after its declaration has ended
ReadAfterInitializer ==
  Lines(<<<<"{">>, <<"var", "x", "=", "1", ";">>,
          <<"var", "y", "=", "x", "+", "1", ";">>, <<"print", "y", ";">>,
          <<"}">>>>)

InitializerPrograms ==
  {InitializerReading(place) : place \in InitializerReads}
    \cup {ReadAfterInitializer}

\* an initializer that writes a field of its own class
InitWritesClassField ==
  Lines(<<<<"class", "C", "{">>,
          <<"init", "(", ")", "{", "C", ".", "n", "=", "1", ";", "}">>,
          <<"}">>,
          <<"var", "c", "=", "C", "(", ")", ";">>,
          <<"print", "C", ".", "n", ";">>>>)

\* two instances of one class, a field written on the first only
FreshInstances ==
  Lines(<<<<"class", "P", "{">>,
          <<"init", "(", "a", ")", "{", "this", ".", "x", "=", "a", ";", "}">>,
          <<"}">>,
          <<"var", "p", "=", "P", "(", "1", ")", ";">>,
          <<"p", ".", "y", "=", "3", ";">>,
          <<"var", "q", "=", "P", "(", "2", ")", ";">>,
          <<"print", "p", ".", "x", "+", "p", ".", "y", ";">>,
          <<"print", "q", ".", "x", ";">>,
          <<"print", "q", ".", "y", ";">>>>)

ClassCallPrograms == {InitWritesClassField, FreshInstances}

\* members declared without a parameter list (foo, bar) and with one (baz)
PropertyMembers ==
  Lines(<<<<"class", "M", "{">>,
          <<"init", "(", "f", ")", "{", "this", ".", "_f", "=", "f", ";", "}">>,
          <<"foo", "{", "return", "this", ".", "_f", ";", "}">>,
          <<"bar", "{", "this", ".", "_f", "=", "3", ";", "}">>,
          <<"baz", "(", ")", "{", "this", ".", "_f", "=", "1", ";",
            "return", "2", ";", "}">>,
          <<"}">>,
          <<"var", "m", "=", "M", "(", "7", ")", ";">>,
          <<"print", "m", ".", "foo", ";">>,
          <<"print", "m", ".", "bar", ";">>,
          <<"var", "g", "=", "m", ".", "baz", ";">>,
          <<"print", "m", ".", "foo", ";">>,
          <<"print", "g", "(", ")", ";">>,
          <<"print", "m", ".", "foo", ";">>>>)

\* one field name written on a class and on two of its instances
FieldStores ==
  Lines(<<<<"class", "Foo", "{", "}">>,
          <<"Foo", ".", "v", "=", "10", ";">>,
          <<"var", "f", "=", "Foo", "(", ")", ";">>,
          <<"var", "g", "=", "Foo", "(", ")", ";">>,
          <<"f", ".", "v", "=", "11", ";">>,
          <<"print", "Foo", ".", "v", ";">>,
          <<"g", ".", "v", "=", "7", ";">>,
          <<"print", "f", ".", "v", ";">>,
          <<"Foo", ".", "v", "=", "3", ";">>,
          <<"print", "f", ".", "v", "+", "g", ".", "v", ";">>,
          <<"print", "Foo", ".", "v", ";">>>>)

\* a field named like a method, holding the method bound to another instance
FieldShadowsMethod ==
  Lines(<<<<"class", "Person", "{">>,
          <<"init", "(", "n", ")", "{", "this", ".", "n", "=", "n", ";", "}">>,
          <<"name", "(", ")", "{", "return", "this", ".", "n", ";", "}">>,
          <<"}">>,
          <<"var", "jane", "=", "Person", "(", "\"in\"", ")", ";">>,
          <<"var", "bill", "=", "Person", "(", "\"out\"", ")", ";">>,
          <<"print", "bill", ".", "name", "(", ")", ";">>,
          <<"bill", ".", "name", "=", "jane", ".", "name", ";">>,
          <<"print", "bill", ".", "name", "(", ")", ";">>,
          <<"print", "jane", ".", "name", "(", ")", ";">>,
          <<"print", "bill", ".", "age", ";">>>>)

\* operands of a comparison, by the type of their value
Compared ==
  [number |-> {<<"1">>, <<"2">>},
   string |-> {<<"\"in\"">>, <<"\"out\"">>},
   other |-> {<<"nil">>, <<"true">>, <<"C", "(", ")">>}]

ComparedTypes == DOMAIN Compared

AllCompared == UNION {Compared[type] : type \in ComparedTypes}

ComparedType(lexemes) ==
  CHOOSE type \in ComparedTypes : lexemes \in Compared[type]

\* `print left op right;` after the declaration of an empty class C
Comparison(left, op, right) ==
  Lines(<<<<"class", "C", "{", "}">>,
          <<"print">> \o left \o <<op>> \o right \o <<";">>>>)

\* three comparisons, the last one of two instances
EqualityChain ==
  Lines(<<<<"class", "C", "{", "}">>,
          <<"print", "\"in\"", "==", "\"in\"", ";">>,
          <<"print", "1", "==", "2", ";">>,
          <<"print", "C", "(", ")", "==", "C", "(", ")", ";">>>>)

EqualityPrograms ==
  {EqualityChain} \cup
  {Comparison(left, "==", right) : left \in AllCompared, right \in AllCompared}

InequalityPrograms ==
  {Comparison(left, "!=", right) : left \in AllCompared, right \in AllCompared}

\* a loop that calls a function whose own loop is left by break
BreakInCallee ==
  Lines(<<<<"fun", "f", "(", ")", "{">>,
          <<"while", "(", "true", ")", "{", "break", ";", "}">>,
          <<"}">>,
          <<"while", "(", "true", ")", "{">>,
          <<"f", "(", ")", ";">>,
          <<"print", "1", ";">>,
          <<"break", ";">>,
          <<"}">>>>)

Programs ==
  CallPrograms \cup ScopePrograms \cup ControlPrograms \cup ClosurePrograms
  \cup ForPrograms \cup WhilePrograms
  \cup {BreakInCallee}
  \cup InequalityPrograms
  \cup EqualityPrograms
  \cup {FieldShadowsMethod}
  \cup {FieldStores}
  \cup {PropertyMembers}
  \cup ClassCallPrograms
  \cup InitializerPrograms
  \cup ThisPlacements
  \cup DeclarationPrograms
  \cup BreakPlacements
  \cup InitPrograms
  \cup ReturnPlacements
  \cup ScanPrograms
  \cup LogicalPrograms
  \cup {NestedBlocks, FunctionLocals, MethodLocals, ClassMethodLocals,
        SameLine, OwnInitializer, ForOneLine, AllExits, UndefinedGlobal,
        UndefinedLocal, ArityScenario, MethodBinding, MethodBindingTwo,
        PropertyScenario, ClassFieldScenario, UnusedLocalScenario,
        ParseFailure, SingleExpression, SingleExpressionFailure,
        TopLevelBreak, TopLevelReturn, BreakThroughCall, NestedReturn,
        WhileManyLines}

(***************************************************************************)
(* lib.rs: the driver.  use_resolver = TRUE is Lox::run (scan, parse,      *)
(* resolve, run_statements); use_resolver = FALSE is the use the           *)
(* interpreter's own tests make of it (scan, parse, interpret).            *)
(* `reported` is the message handed to error::report.                      *)
(***************************************************************************)
\* what NativeClock reads
ClockReading == 0

\* Lox::run as one function of the source: what the run leaves behind
Outcome(panicked, error, runtime_error, it) ==
  [panicked |-> panicked, had_error |-> error,
   had_runtime_error |-> runtime_error, out |-> it.out,
   globals |-> it.envs[it.globals].values]

Lox_run(src, with_resolver) ==
  Let(Interpreter_new(ClockReading), LAMBDA it0 :
  IF scan_panics(src) THEN Outcome(TRUE, FALSE, FALSE, it0)
  ELSE
  Let(parse(scan_tokens(src)), LAMBDA p :
  IF ~p.ok THEN Outcome(FALSE, TRUE, FALSE, it0)
  ELSE
    Let(IF with_resolver THEN resolve(Resolver_new(it0.locals), p.v)
        ELSE Resolver_new(it0.locals), LAMBDA r :
    IF r.err # "" THEN Outcome(FALSE, TRUE, FALSE, it0)
    ELSE
      Let([it0 EXCEPT !.locals = r.locals], LAMBDA it1 :
      IF with_resolver /\ Len(p.v) = 1 /\ p.v[1].t = "Expression"
        THEN Let(evaluate(it1, p.v[1].expression), LAMBDA e :
             IF e.status = "Ok"
               THEN Outcome(FALSE, FALSE, FALSE,
                            [e.it EXCEPT !.out = Append(@, Display(e.it, e.v))])
               ELSE Outcome(e.status = "Panic", FALSE, e.status # "Panic",
                            e.it))
        ELSE Let(interpret(it1, p.v), LAMBDA x :
             Outcome(x.status = "Panic", FALSE,
                     x.status \notin {"Ok", "Panic"}, x.it))))))

Init ==
  /\ source \in Programs
  /\ use_resolver \in BOOLEAN
  /\ phase = "scan"
  /\ tokens = <<>>
  /\ statements = <<>>
  /\ reported = ""
  /\ resolver = Resolver_new(<<>>)
  /\ interpreter = Interpreter_new(ClockReading)
  /\ pc = 1
  /\ had_error = FALSE
  /\ had_runtime_error = FALSE

Scan ==
  /\ phase = "scan"
  /\ IF scan_panics(source)
       THEN phase' = "panic" /\ UNCHANGED <<tokens, reported>>
       ELSE /\ tokens' = scan_tokens(source)
            /\ reported' = scan_reports(source)
            /\ phase' = "parse"
  /\ UNCHANGED <<source, use_resolver, statements, resolver, interpreter, pc,
                 had_error, had_runtime_error>>

Parse ==
  /\ phase = "parse"
  /\ \E p \in {parse(tokens)} :
     IF p.ok
       THEN /\ statements' = p.v
            /\ phase' = IF use_resolver THEN "resolve" ELSE "run"
            /\ UNCHANGED <<reported, had_error>>
       ELSE /\ reported' = p.err
            /\ had_error' = TRUE
            /\ phase' = "done"
            /\ UNCHANGED statements
  /\ UNCHANGED <<source, use_resolver, tokens, resolver, interpreter, pc,
                 had_runtime_error>>

\* Lox::resolve: the resolver writes the interpreter's locals as it goes
Resolve ==
  /\ phase = "resolve"
  /\ \E r \in {resolve(Resolver_new(interpreter.locals), statements)} :
     /\ resolver' = r
     /\ interpreter' = [interpreter EXCEPT !.locals = r.locals]
     /\ IF r.err = ""
          THEN phase' = "run" /\ UNCHANGED <<reported, had_error>>
          ELSE phase' = "done" /\ reported' = r.err /\ had_error' = TRUE
  /\ UNCHANGED <<source, use_resolver, tokens, statements, pc,
                 had_runtime_error>>

single_expression ==
  use_resolver /\ Len(statements) = 1 /\ statements[1].t = "Expression"

\* Lox::run_statements on a single expression statement
Evaluate ==
  /\ phase = "run"
  /\ single_expression
  /\ \E r \in {evaluate(interpreter, statements[1].expression)} :
     IF r.status = "Ok"
       THEN /\ interpreter' = [r.it EXCEPT !.out = Append(@, Display(r.it, r.v))]
            /\ phase' = "done"
            /\ UNCHANGED <<reported, had_runtime_error>>
       ELSE IF r.status = "Panic"
         THEN /\ interpreter' = r.it
              /\ phase' = "panic"
              /\ UNCHANGED <<reported, had_runtime_error>>
       ELSE /\ interpreter' = r.it
            /\ reported' = r.msg
            /\ had_runtime_error' = TRUE
            /\ phase' = "done"
  /\ UNCHANGED <<source, use_resolver, tokens, statements, resolver, pc,
                 had_error>>

\* one turn of the loop of Interpreter::interpret
Execute ==
  /\ phase = "run"
  /\ ~single_expression
  /\ pc <= Len(statements)
  /\ \E r \in {execute(interpreter, statements[pc])} :
     IF r.status = "Ok"
       THEN /\ interpreter' = r.it
            /\ pc' = pc + 1
            /\ UNCHANGED <<phase, reported, had_runtime_error>>
       ELSE IF r.status = "Panic"
         THEN /\ interpreter' = r.it
              /\ phase' = "panic"
              /\ UNCHANGED <<pc, reported, had_runtime_error>>
       ELSE /\ interpreter' = r.it
            /\ reported' = _process_error(r).msg
            /\ had_runtime_error' = TRUE
            /\ phase' = "done"
            /\ UNCHANGED pc
  /\ UNCHANGED <<source, use_resolver, tokens, statements, resolver,
                 had_error>>

\* Interpreter::interpret returns Ok(())
Finish ==
  /\ phase = "run"
  /\ ~single_expression
  /\ pc > Len(statements)
  /\ phase' = "done"
  /\ UNCHANGED <<source, use_resolver, tokens, statements, reported, resolver,
                 interpreter, pc, had_error, had_runtime_error>>

Next == Scan \/ Parse \/ Resolve \/ Evaluate \/ Execute \/ Finish

Spec == Init /\ [][Next]_vars

\* ------------------------------------------------------------------
\* Properties
\* ------------------------------------------------------------------

Done == phase = "done"

\* the resolver ran and accepted the program
Accepted == use_resolver /\ phase \in {"run", "done"} /\ ~had_error

\* the events of one kind logged so far
Events(e) == {i \in DOMAIN interpreter.trace : interpreter.trace[i].e = e}

EventAt(i) == interpreter.trace[i]

\* C1: in every run of a program the resolver accepted, each Variable,
\* Assign or This node with a recorded distance d is evaluated where the
\* environment d parents up exists and already binds the name
ResolvedUsesAreBound ==
  Accepted => \A i \in Events("local") : EventAt(i).b = 1

\* C2: a Block, a function call and a bound-method call leave the current
\* environment as they found it, however they end (normally, by a runtime
\* error, by Break or by Return); between statements of interpret(), and
\* after it returned, the current environment is globals
EnvironmentRestored ==
  /\ interpreter.environment = interpreter.globals
  /\ \A i \in Events("block") : EventAt(i).a = EventAt(i).b

\* blocks nested in a call ended in each of the four ways
EnvironmentRestoredWitness ==
  /\ Done /\ source = AllExits /\ had_runtime_error
  /\ {EventAt(i).name : i \in Events("block")} = {"Ok", "Error", "Break", "Return"}
  /\ \E i \in Events("block") :
        EventAt(i).name = "Break" /\ EventAt(i).a # interpreter.globals
  /\ \E i \in Events("block") :
        EventAt(i).name = "Return" /\ EventAt(i).a # interpreter.globals
  /\ Events("invoke") # {}

BreakAtRoot ==
  "A \"break\" statement trickled all the way up to root. Something is horribly wrong."
ReturnAtRoot ==
  "A \"return\" statement trickled all the way up to root. Something is horribly wrong."

\* C3: a Break raised at any depth of blocks and ifs ends exactly the
\* innermost while loop, which completes normally (the outer loop goes on);
\* a Return passes every enclosing loop and block and becomes the result of
\* the innermost call; a Break or Return that reaches interpret() or
\* evaluate() is reported as a runtime error
SignalsConsumed ==
  /\ \A d \in 0..MaxDepth :
       (Done /\ use_resolver /\ source = BreakProgram(d)) =>
         /\ ~had_error /\ ~had_runtime_error
         /\ interpreter.out = <<"in", "out", "in", "out", "end">>
         /\ Cardinality(Events("loop_break")) = 2
  /\ \A d \in 0..MaxDepth :
       (Done /\ source = ReturnProgram(d)) =>
         /\ ~had_error /\ ~had_runtime_error
         /\ interpreter.out = <<"7", "out">>
         /\ Events("loop_break") = {}
  /\ (Done /\ source = NestedReturn) =>
       ~had_runtime_error /\ interpreter.out = <<"1", "in", "2">>
  /\ (Done /\ ~use_resolver /\ source = TopLevelBreak) =>
       had_runtime_error /\ reported = BreakAtRoot /\ interpreter.out = <<"in">>
  /\ (Done /\ ~use_resolver /\ source = TopLevelReturn) =>
       had_runtime_error /\ reported = ReturnAtRoot /\ interpreter.out = <<"in">>
  /\ (Done /\ ~use_resolver /\ source = BreakThroughCall) =>
       had_runtime_error /\ reported = BreakAtRoot /\ Events("loop_break") = {}

\* the inner loop was left twice by a break under MaxDepth blocks and ifs
SignalsConsumedWitness ==
  /\ Done /\ use_resolver /\ source = BreakProgram(MaxDepth)
  /\ interpreter.out = <<"in", "out", "in", "out", "end">>
  /\ Cardinality(Events("loop_break")) = 2
  /\ \E i \in Events("block") : EventAt(i).name = "Break"

\* C4 (as stated): reading a variable that holds Undefined is a runtime
\* error, and the Undefined value is never the result of an evaluation (so
\* it is never printed)
UndefinedNeverRead ==
  /\ \A i \in DOMAIN interpreter.out : interpreter.out[i] # "<undefined>"
  /\ (Done /\ ~had_error /\ source \in {UndefinedGlobal, UndefinedLocal}) =>
       had_runtime_error

\* C5: a call whose argument count differs from the callee's arity (for a
\* class: that of `init`, 0 without one) is a runtime error and no body
\* runs; with equal counts the body runs once and a call that returns
\* nothing yields nil
ArityChecked ==
  /\ \A i \in Events("invoke") : EventAt(i).a = EventAt(i).b
  /\ \A kind \in CallKinds, k \in 0..MaxArity, n \in 0..MaxArity :
       (Done /\ source = CallProgram(kind, k, n)) =>
         /\ ~had_error
         /\ k # n =>
              /\ had_runtime_error /\ reported = Expected(k, n)
              /\ interpreter.out = <<>> /\ Events("invoke") = {}
         /\ (k = n /\ use_resolver) =>
              /\ ~had_runtime_error
              /\ Cardinality(Events("invoke")) = 1
              /\ interpreter.out =
                   <<"in", IF kind = "class" THEN "C instance" ELSE "nil">>
  /\ \A n \in 0..MaxArity :
       (Done /\ source = ClockProgram(n)) =>
         IF n = 0
           THEN ~had_runtime_error /\ interpreter.out = <<NumStr(ClockReading)>>
           ELSE had_runtime_error /\ reported = Expected(0, n)
                /\ interpreter.out = <<>>

\* a method with MaxArity parameters refused one argument too few
ArityCheckedWitness ==
  /\ Done /\ source = CallProgram("method", MaxArity, MaxArity - 1)
  /\ had_runtime_error /\ reported = Expected(MaxArity, MaxArity - 1)
  /\ interpreter.out = <<>>

\* C6 (as stated): `fun two(a,b){} two(1);` run through scan, parse, resolve
\* and interpret passes resolution and ends in the runtime error
\* "Expected 2 arguments but got 1"
ArityScenarioFailsAtRuntime ==
  (Done /\ use_resolver /\ source = ArityScenario) =>
    /\ ~had_error
    /\ had_runtime_error
    /\ reported = "Expected 2 arguments but got 1"

\* C7: a program is rejected when a block, function, lambda or method scope
\* ends with a variable declared in it that was never accessed, accepted
\* when the variable is used before the scope ends, and a global is never
\* subject to the check
UnusedLocalsRejected ==
  \A scope \in Scopes, usage \in Usages :
    (use_resolver /\ phase \in {"run", "done"}
       /\ source = ScopeProgram(scope, usage)) =>
      /\ had_error <=> (scope # "global" /\ usage = "none")
      /\ had_error =>
           Done /\ reported = "Variable defined but never accessed"
                /\ interpreter.trace = <<>>

\* the unused local of a function body was refused
UnusedLocalsRejectedWitness ==
  /\ Done /\ use_resolver /\ source = ScopeProgram("function", "none")
  /\ had_error /\ reported = "Variable defined but never accessed"

\* C8: a method value taken from an instance stays bound to it: each later
\* call sees the instance's current fields, also those written after the
\* method value was taken, and also when the value is stored elsewhere
MethodStaysBound ==
  /\ (Done /\ use_resolver /\ source = MethodBinding) =>
       ~had_error /\ ~had_runtime_error /\ interpreter.out = <<"bar", "baz">>
  /\ (Done /\ use_resolver /\ source = MethodBindingTwo) =>
       /\ ~had_error /\ ~had_runtime_error
       /\ interpreter.out = <<"bar", "baz", "baz", "baz">>

\* the method value answered "bar", then "baz" after the field write
MethodStaysBoundWitness ==
  /\ Done /\ use_resolver /\ source = MethodBinding
  /\ interpreter.out = <<"bar", "baz">>
  /\ Cardinality(Events("invoke")) = 3

\* C9: a function or lambda captures its defining environment by
\* reference: after the captured variable is re-assigned, from outside or
\* by another closure over the same scope, a call reads the new value
ClosureByReference ==
  \A local \in BOOLEAN, v \in ClosureValues :
    (Done /\ (use_resolver \/ ~local) /\ source = ClosureProgram(local, v)) =>
      /\ ~had_error /\ ~had_runtime_error
      /\ interpreter.out =
           <<"1", v, IF v = "2" THEN "3" ELSE "8", IF v = "2" THEN "3" ELSE "8">>

\* a block-local variable re-assigned to 7 outside and to 8 by the lambda
ClosureByReferenceWitness ==
  /\ Done /\ use_resolver /\ source = ClosureProgram(TRUE, "7")
  /\ interpreter.out = <<"1", "7", "8", "8">>

\* a token sequence with the line numbers erased
Unlined(toks) == [i \in DOMAIN toks |-> [toks[i] EXCEPT !.line = 0]]

\* what the parser makes of a source, up to line numbers
Shape(src) == parse(Unlined(scan_tokens(src)))

\* a for loop and its while form
LoopPairs ==
  {<<ForProgram(I, C, B), WhileProgram(I, C, B)>> :
     I \in Initializers, C \in Conditions, B \in Bodies}
  \cup {<<ForOneLine, WhileManyLines>>}

\* the parser's statements for the for loop are those of the while form
SameStatements ==
  \A pair \in LoopPairs :
    (source = pair[1] /\ phase \in {"resolve", "run", "done"} /\ ~had_error) =>
      /\ parse(Unlined(tokens)).v = Shape(pair[2]).v
      /\ Shape(pair[2]).ok

\* the run of the for loop ends as the run of the while form does
SameRuns ==
  \A pair \in LoopPairs :
    (source = pair[1] /\ Done) =>
      Outcome(FALSE, had_error, had_runtime_error, interpreter)
        = Lox_run(pair[2], use_resolver)

\* C10 (as stated): `for (I; C; U) B` is parsed into the statements of
\* `{ I; while (C) { B; U; } }` (no outer block without I, the condition
\* `true` without C), so running the for loop prints the same lines and
\* leaves the same variable values as running the while form
ForIsWhile == SameStatements /\ SameRuns

\* only false and nil are falsey
Truthy(lexeme) == lexeme \notin {"false", "nil"}

\* C11: `a or b` is the value of a when a is truthy and otherwise that of
\* b; `a and b` is the value of a when a is falsey and otherwise that of b;
\* a is evaluated exactly once, and b not at all when the result is a
ShortCircuit ==
  \A op \in LogicalOperators, A \in Operands, B \in RightOperands :
    (Done /\ source = LogicalProgram(op, A, B)) =>
      /\ ~had_error /\ ~had_runtime_error
      /\ interpreter.out =
           IF Truthy(A) <=> (op = "or")
             THEN <<Shown(A), "1">>
             ELSE <<Shown(B), "11">>

\* `0 or b()`: 0 is truthy, so b was not called
ShortCircuitWitness ==
  /\ Done /\ source = LogicalProgram("or", "0", "7")
  /\ interpreter.out = <<"0", "1">>
  /\ Cardinality(Events("invoke")) = 1

\* the end-of-file tokens of the scanner's result
EofTokens == {i \in DOMAIN tokens : tokens[i].token_type = "Eof"}

\* C12 (as stated): for every source, also one with an unexpected
\* character or an unterminated string, scan_tokens returns a token
\* sequence with exactly one end-of-file token, in last position, and
\* scanning goes on after an unexpected character
ScanEndsWithEof ==
  phase # "scan" => EofTokens = {Len(tokens)} /\ Len(tokens) > 0

\* whenever scan_tokens does return, its result ends in its only Eof
ReturnedTokensEndWithEof ==
  phase \notin {"scan", "panic"} =>
    EofTokens = {Len(tokens)} /\ Len(tokens) > 0

\* C13 (as stated): the Variable, Assign and This nodes the resolver
\* records a distance for are distinct keys of the interpreter's table,
\* also when they are textually identical: no recording overwrites an
\* earlier one, and each node's entry is the distance recorded for it
DistinctResolutionKeys ==
  /\ \A i, j \in DOMAIN resolver.recorded :
       i # j => resolver.recorded[i].key # resolver.recorded[j].key
  /\ phase \in {"run", "done"} =>
       \A i \in DOMAIN resolver.recorded :
         /\ resolver.recorded[i].key \in DOMAIN interpreter.locals
         /\ interpreter.locals[resolver.recorded[i].key]
              = resolver.recorded[i].distance

\* the resolver ran to its end on the program
Resolved == use_resolver /\ phase \in {"run", "done"}

\* C14: a return statement, with or without value, outside every function,
\* lambda and method body is a resolve error (also inside blocks, ifs and
\* loops, and after a function declaration has ended); inside a function
\* body it is accepted
ReturnOutsideRejected ==
  \A v \in ReturnValues :
    /\ \A place \in PlacesOutside :
         (Resolved /\ source = ReturnPlacement(place, v)) =>
           /\ had_error /\ Done
           /\ reported = "Cannot return from top-level code."
           /\ interpreter.out = <<>>
    /\ \A place \in PlacesInside :
         (Resolved /\ source = ReturnPlacement(place, v)) => ~had_error

\* `return;` after the declaration of a function was refused
ReturnOutsideRejectedWitness ==
  /\ Resolved /\ source = ReturnPlacement("after", "none")
  /\ had_error /\ reported = "Cannot return from top-level code."

\* C15: in a method named init the resolver refuses `return 1;` and accepts
\* `return;`; a call of the initializer on an instance gives back that very
\* instance (a field set through the result is read through the instance)
\* both when the body runs to its end and when it leaves by `return;`
InitializerReturns ==
  /\ (Resolved /\ source = InitProgram("value")) =>
       /\ had_error /\ Done /\ interpreter.out = <<>>
       /\ reported = "Cannot return a value from class initializer method."
  /\ \A body \in {"normal", "bare"} :
       (Resolved /\ source = InitProgram(body)) =>
         /\ ~had_error
         /\ Done => (~had_runtime_error /\ interpreter.out = <<"7", "3">>)

\* the initializer that leaves by `return;` was called twice and the second
\* call gave back the instance
InitializerReturnsWitness ==
  /\ Resolved /\ Done /\ source = InitProgram("bare")
  /\ interpreter.out = <<"7", "3">>
  /\ Cardinality(Events("invoke")) = 2

\* C16: a break with no enclosing loop in the same function body is a
\* resolve error, also when the function is declared or called inside a
\* loop; a break inside a loop of the same body (directly, in a block, in an
\* if) is accepted
BreakOutsideLoopRejected ==
  /\ \A place \in BreaksOutside :
       (Resolved /\ source = BreakPlacement(place)) =>
         /\ had_error /\ Done /\ interpreter.out = <<>>
         /\ reported = "Illegal \"break\" statement outside of a loop."
  /\ \A place \in BreaksInside :
       (Resolved /\ source = BreakPlacement(place)) =>
         /\ ~had_error
         /\ Done => ~had_runtime_error

\* the break in the body of a function declared inside a loop was refused
BreakOutsideLoopRejectedWitness ==
  /\ Resolved /\ source = BreakPlacement("function_in_loop")
  /\ had_error
  /\ reported = "Illegal \"break\" statement outside of a loop."

\* C17: declaring a name (variable, function, class, parameter) a second
\* time in the same local scope is a resolve error; twice at global scope is
\* accepted; in a nested scope that shadows the outer one is accepted
RedeclarationRejected ==
  /\ (Resolved /\ source \in Redeclared) =>
       /\ had_error /\ Done /\ interpreter.out = <<>>
       /\ reported = "Variable already defined in this scope."
  /\ (Resolved /\ source \in GloballyRedeclared) => ~had_error
  /\ (Resolved /\ source \in Shadowed) =>
       /\ ~had_error
       /\ Done => (~had_runtime_error /\ interpreter.out = <<"2", "1">>)
  /\ (Resolved /\ Done /\ source = GlobalRedeclaration("var", "var")) =>
       (~had_runtime_error /\ interpreter.out = <<"2">>)

\* a variable declared over a parameter of the same body was refused
RedeclarationRejectedWitness ==
  /\ Resolved /\ source = ParameterAndLocal("var")
  /\ had_error /\ reported = "Variable already defined in this scope."

\* C18: `this` outside every class declaration (top level, plain function,
\* lambda) is a resolve error, and is one again after a class declaration
\* has ended; inside a method body it is accepted and names the instance
ThisOutsideClassRejected ==
  /\ \A place \in ThisOutside :
       (Resolved /\ source = ThisPlacement(place)) =>
         /\ had_error /\ Done /\ interpreter.out = <<>>
         /\ reported = "Cannot use \"this\" outside of a class."
  /\ \A place \in ThisInside :
       (Resolved /\ source = ThisPlacement(place)) =>
         /\ ~had_error
         /\ Done => (~had_runtime_error /\ interpreter.out = <<"7">>)

\* `this` after the end of a class that uses `this` in a method was refused
ThisOutsideClassRejectedWitness ==
  /\ Resolved /\ source = ThisPlacement("after_class")
  /\ had_error /\ reported = "Cannot use \"this\" outside of a class."

OwnInitializerMessage == "Cannot read local variable in its own initializer."

\* C19: every read of the local x inside the initializer of `var x = ...;`
\* is the resolve error "Cannot read local variable in its own
\* initializer"; after the statement x is read without error
OwnInitializerReadRejected ==
  /\ \A place \in InitializerReads :
       (Resolved /\ source = InitializerReading(place)) =>
         (had_error /\ reported = OwnInitializerMessage)
  /\ (Resolved /\ Done /\ source = ReadAfterInitializer) =>
       (~had_error /\ ~had_runtime_error /\ interpreter.out = <<"2">>)

\* the reads the resolver meets in the scope of the declaration itself are
\* refused, and the read after the statement is accepted
ReadInDeclaringScopeRejected ==
  /\ \A place \in {"direct", "operand", "argument"} :
       (Resolved /\ source = InitializerReading(place)) =>
         (had_error /\ reported = OwnInitializerMessage)
  /\ (Resolved /\ Done /\ source = ReadAfterInitializer) =>
       (~had_error /\ ~had_runtime_error /\ interpreter.out = <<"2">>)

\* a read of x from the body of a lambda called inside the initializer is
\* accepted by the resolver and fails when the program runs
ReadThroughLambdaAccepted ==
  (Resolved /\ Done /\ source = InitializerReading("called_lambda")) =>
    (~had_error /\ had_runtime_error)

(***************************************************************************)
(* environment.rs on its own: a chain of environments built and used       *)
(* through Environment::new, as_child_of, define and assign.  pc counts    *)
(* the calls made; interpreter.environment is the innermost environment.   *)
(***************************************************************************)
MaxCalls == 5

EnvNames == {"a", "b"}
Defined == Number(1)
Assigned == Number(2)

EnvInit ==
  /\ source = <<>>
  /\ use_resolver = FALSE
  /\ phase = "environment"
  /\ tokens = <<>>
  /\ statements = <<>>
  /\ reported = ""
  /\ resolver = Resolver_new(<<>>)
  /\ interpreter = Interpreter_new(ClockReading)
  /\ pc = 0
  /\ had_error = FALSE
  /\ had_runtime_error = FALSE

\* Environment::as_child_of(current)
EnvChild ==
  /\ pc < MaxCalls
  /\ \E it \in {as_child_of(interpreter, interpreter.environment)} :
       interpreter' = [it EXCEPT !.environment = NewEnv(it)]
  /\ pc' = pc + 1
  /\ UNCHANGED <<source, use_resolver, phase, tokens, statements, reported,
                 resolver, had_error, had_runtime_error>>

\* current.define(name, 1)
EnvDefine ==
  /\ pc < MaxCalls
  /\ \E n \in EnvNames :
       interpreter' = env_define(interpreter, interpreter.environment, n,
                                 Defined)
  /\ pc' = pc + 1
  /\ UNCHANGED <<source, use_resolver, phase, tokens, statements, reported,
                 resolver, had_error, had_runtime_error>>

\* current.assign(name, 2); the call and its result are kept in the trace
EnvAssign ==
  /\ pc < MaxCalls
  /\ \E n \in EnvNames :
     \E r \in {env_assign(interpreter, interpreter.environment,
                          Token("Identifier", n, NoLiteral, 1), Assigned)} :
       /\ interpreter' = Log(r.it, Event("assign", n, interpreter.environment,
                                         IF r.status = "Ok" THEN 1 ELSE 0))
       /\ had_runtime_error' = (r.status # "Ok")
       /\ reported' = r.msg
  /\ pc' = pc + 1
  /\ UNCHANGED <<source, use_resolver, phase, tokens, statements, resolver,
                 had_error>>

EnvNext == EnvChild \/ EnvDefine \/ EnvAssign

EnvSpec == EnvInit /\ [][EnvNext]_vars

\* the handles from e outwards: e, its enclosing environment, ...
RECURSIVE Chain(_, _)
Chain(envs, e) ==
  IF e = 0 THEN <<>> ELSE <<e>> \o Chain(envs, envs[e].enclosing)

\* the positions of the chain whose scope holds the name
Holders(envs, chain, n) ==
  {i \in 1..Len(chain) : n \in DOMAIN envs[chain[i]].values}

\* envs2 is envs with the one binding of n in scope h replaced by value
Overwritten(envs, envs2, h, n, value) ==
  /\ Len(envs2) = Len(envs)
  /\ \A k \in 1..Len(envs) : k # h => envs2[k] = envs[k]
  /\ envs2[h].enclosing = envs[h].enclosing
  /\ DOMAIN envs2[h].values = DOMAIN envs[h].values
  /\ envs2[h].values[n] = value
  /\ \A m \in DOMAIN envs[h].values :
       m # n => envs2[h].values[m] = envs[h].values[m]

\* the step is a call of assign
AssignCalled ==
  /\ Len(interpreter'.trace) = Len(interpreter.trace) + 1
  /\ Last(interpreter'.trace).e = "assign"

\* C20: assign never creates a binding: when no scope of the chain holds
\* the name the call is a runtime error and every scope is as before;
\* otherwise the binding of the nearest scope that holds the name is
\* overwritten and nothing else changes
AssignNeverCreates ==
  [][AssignCalled =>
       LET call == Last(interpreter'.trace)
           chain == Chain(interpreter.envs, call.a)
           holders == Holders(interpreter.envs, chain, call.name)
       IN IF holders = {}
            THEN /\ had_runtime_error' /\ call.b = 0
                 /\ reported' = "Undefined variable \"" \o call.name \o "\"."
                 /\ interpreter'.envs = interpreter.envs
            ELSE /\ ~had_runtime_error' /\ call.b = 1
                 /\ LET nearest == CHOOSE i \in holders :
                                     \A j \in holders : i <= j
                    IN Overwritten(interpreter.envs, interpreter'.envs,
                                   chain[nearest], call.name, Assigned)
  ]_vars

\* assign was called two scopes inside the globals on a name held by the
\* enclosing scope and by the globals: the enclosing scope has the new value,
\* the globals keep the old one and the innermost scope has no binding
AssignNeverCreatesWitness ==
  /\ phase = "environment"
  /\ Len(interpreter.trace) > 0
  /\ Last(interpreter.trace) = Event("assign", "a", 3, 1)
  /\ Len(interpreter.envs) = 3
  /\ "a" \notin DOMAIN interpreter.envs[3].values
  /\ "a" \in DOMAIN interpreter.envs[2].values
  /\ "a" \in DOMAIN interpreter.envs[1].values
  /\ interpreter.envs[2].values["a"] = Assigned
  /\ interpreter.envs[1].values["a"] = Defined

(***************************************************************************)
(* Environment::define and Environment::get on a chain of environments.    *)
(* Each call is kept in the trace: define as (name, scope, value), get as  *)
(* (name, scope, value read), the value read being 0 when get failed.      *)
(***************************************************************************)
EnvValues == {Defined, Assigned}

\* current.define(name, value), value being 1 or 2
EnvDefineValue ==
  /\ pc < MaxCalls
  /\ \E n \in EnvNames, v \in EnvValues :
     \E it \in {env_define(interpreter, interpreter.environment, n, v)} :
       interpreter' = Log(it, Event("define", n, interpreter.environment, v.n))
  /\ pc' = pc + 1
  /\ UNCHANGED <<source, use_resolver, phase, tokens, statements, reported,
                 resolver, had_error, had_runtime_error>>

\* current.get(name)
EnvGet ==
  /\ pc < MaxCalls
  /\ \E n \in EnvNames :
     \E r \in {env_get(interpreter, interpreter.environment,
                       Token("Identifier", n, NoLiteral, 1))} :
       /\ interpreter' = Log(r.it, Event("get", n, interpreter.environment,
                                         IF r.status = "Ok" THEN r.v.n ELSE 0))
       /\ had_runtime_error' = (r.status # "Ok")
       /\ reported' = r.msg
  /\ pc' = pc + 1
  /\ UNCHANGED <<source, use_resolver, phase, tokens, statements, resolver,
                 had_error>>

EnvGetNext == EnvChild \/ EnvDefineValue \/ EnvGet

EnvGetSpec == EnvInit /\ [][EnvGetNext]_vars

\* the step is a call of define
DefineCalled ==
  /\ Len(interpreter'.trace) = Len(interpreter.trace) + 1
  /\ Last(interpreter'.trace).e = "define"

\* the step is a call of get
GetCalled ==
  /\ Len(interpreter'.trace) = Len(interpreter.trace) + 1
  /\ Last(interpreter'.trace).e = "get"

\* C21: define never fails and get on the same scope then returns the value
\* defined, whether or not the name was bound before; get of a name the
\* scope lacks returns the binding of the nearest enclosing scope that has
\* one, and fails with "Undefined variable" only when no scope of the chain
\* binds the name
DefineThenGet ==
  [][/\ DefineCalled =>
          LET call == Last(interpreter'.trace) IN
          /\ had_runtime_error' = had_runtime_error
          /\ call.name \in DOMAIN interpreter'.envs[call.a].values
          /\ interpreter'.envs[call.a].values[call.name] = Number(call.b)
     /\ GetCalled =>
          LET call == Last(interpreter'.trace)
              chain == Chain(interpreter.envs, call.a)
              holders == Holders(interpreter.envs, chain, call.name)
          IN /\ IF holders = {}
                  THEN /\ had_runtime_error' /\ call.b = 0
                       /\ reported' =
                            "Undefined variable \"" \o call.name \o "\"."
                  ELSE /\ ~had_runtime_error'
                       /\ LET nearest == CHOOSE i \in holders :
                                           \A j \in holders : i <= j
                          IN Number(call.b) =
                               interpreter.envs[chain[nearest]]
                                 .values[call.name]
             /\ (/\ Len(interpreter.trace) > 0
                 /\ Last(interpreter.trace).e = "define"
                 /\ Last(interpreter.trace).name = call.name
                 /\ Last(interpreter.trace).a = call.a)
                  => call.b = Last(interpreter.trace).b
  ]_vars

\* `a` was defined as 1 and then as 2 in the globals, and a get from a child
\* scope that does not bind it read 2
DefineThenGetWitness ==
  /\ phase = "environment"
  /\ Len(interpreter.trace) = 3
  /\ interpreter.trace[1] = Event("define", "a", 1, 1)
  /\ interpreter.trace[2] = Event("define", "a", 1, 2)
  /\ interpreter.trace[3] = Event("get", "a", 2, 2)

\* the class data is borrowed only while an initializer runs
InsideClassCall == interpreter.borrowed # <<>>

\* C22: a call of a class gives back the instance it created: the call is
\* never cut short by a panic of the interpreter, the instance is a new one
\* that shares no field with the instances made before, and the initializer
\* has run on it by the time the call gives it back
ClassCallGivesNewInstance ==
  /\ ~(phase = "panic" /\ InsideClassCall)
  /\ \A i \in Events("class_call") : \A j \in Events("class_call") :
       i < j => EventAt(i).a < EventAt(j).a
  /\ (Resolved /\ source = FreshInstances /\ Done) =>
       /\ interpreter.out = <<"4", "2">>
       /\ reported = "Undefined property \"y\"."
  /\ (Resolved /\ source = InitWritesClassField /\ Done) =>
       (~had_runtime_error /\ interpreter.out = <<"1">>)

\* apart from the panic, class calls give new instances and run init first
ClassCallFreshInstance ==
  /\ \A i \in Events("class_call") : \A j \in Events("class_call") :
       i < j => EventAt(i).a < EventAt(j).a
  /\ (Resolved /\ source = FreshInstances /\ Done) =>
       /\ interpreter.out = <<"4", "2">>
       /\ reported = "Undefined property \"y\"."
       /\ {EventAt(i).b : i \in Events("class_call")} = {1}

\* the initializer wrote a field of its class and the interpreter panicked
InitPanics ==
  /\ source = InitWritesClassField
  /\ phase = "panic"
  /\ InsideClassCall
  /\ interpreter.out = <<>>

FieldV(store) ==
  IF "v" \in DOMAIN store THEN store["v"] ELSE Undefined

\* C24: the fields of a class and the fields of its instances are separate
\* stores: a write of v on an instance changes neither the class's v nor the
\* other instance's v, and a write of the class's v changes no instance
ClassAndInstanceFieldsSeparate ==
  (Resolved /\ source = FieldStores) =>
    /\ ~had_error
    /\ ~had_runtime_error
    /\ pc >= 3 =>
         FieldV(interpreter.classes[1].class_fields) =
           IF pc >= 10 THEN Number(3) ELSE Number(10)
    /\ pc >= 4 =>
         FieldV(interpreter.instances[1].fields) =
           IF pc >= 6 THEN Number(11) ELSE Undefined
    /\ pc >= 5 =>
         FieldV(interpreter.instances[2].fields) =
           IF pc >= 8 THEN Number(7) ELSE Undefined
    /\ Done => interpreter.out = <<"10", "11", "18", "3">>

\* every write of FieldStores has been made and every read printed
ClassAndInstanceFieldsSeparateWitness ==
  /\ Resolved /\ source = FieldStores /\ Done
  /\ interpreter.out = <<"10", "11", "18", "3">>
  /\ FieldV(interpreter.classes[1].class_fields) = Number(3)
  /\ FieldV(interpreter.instances[1].fields) = Number(11)
  /\ FieldV(interpreter.instances[2].fields) = Number(7)

\* C25: a property read on an instance looks at the instance's fields first
\* and at the methods of its class on a miss: once bill.name holds jane's
\* bound method, bill.name() runs it with `this` = jane; a name that is
\* neither a field nor a method is a runtime error
FieldsBeforeMethods ==
  (Resolved /\ source = FieldShadowsMethod) =>
    /\ ~had_error
    /\ pc = 5 => interpreter.out = <<"out">>
    /\ pc = 6 =>
         /\ interpreter.instances[2].fields["name"].k = "Callable"
         /\ "name" \notin DOMAIN interpreter.instances[1].fields
    /\ pc = 7 => interpreter.out = <<"out", "in">>
    /\ pc < 8 => ~had_runtime_error
    /\ Done =>
         /\ interpreter.out = <<"out", "in", "in">>
         /\ had_runtime_error
         /\ reported = "Undefined property \"age\"."

\* the method was read through the field of bill and the unknown name failed
FieldsBeforeMethodsWitness ==
  /\ Resolved /\ source = FieldShadowsMethod /\ Done
  /\ interpreter.out = <<"out", "in", "in">>
  /\ interpreter.instances[2].fields["name"].k = "Callable"
  /\ reported = "Undefined property \"age\"."

\* what `print left == right;` is to print, if anything
EqualityPrinted(left, right) ==
  IF ComparedType(left) = ComparedType(right) /\ ComparedType(left) # "other"
    THEN <<IF left = right THEN "true" ELSE "false">>
    ELSE <<>>

\* C26: `a == b` gives a Boolean only when both operands are numbers or both
\* are strings, true exactly when they are equal; for every other pair of
\* operand types (nil, booleans, instances, a number and a string) it is a
\* runtime error
EqualityOnlyOnSameType ==
  \A left \in AllCompared : \A right \in AllCompared :
    (source = Comparison(left, "==", right) /\ Done) =>
      /\ ~had_error
      /\ interpreter.out = EqualityPrinted(left, right)
      /\ had_runtime_error <=> EqualityPrinted(left, right) = <<>>

\* two equal strings and two different numbers were compared and printed,
\* then two instances were compared
EqualityOnlyOnSameTypeWitness ==
  /\ source = EqualityChain /\ Done /\ use_resolver
  /\ interpreter.out = <<"true", "false">>
  /\ had_runtime_error
  /\ Len(interpreter.instances) = 2
  /\ reported = "Left operand not a number or string."

\* the instances the operands of a comparison create
Created(left, right) ==
  Cardinality({side \in {"left", "right"} :
                 (IF side = "left" THEN left ELSE right) = <<"C", "(", ")">>})

\* C29: `a != b` is a runtime error for every pair of operand values, raised
\* after both operands have been evaluated
NotEqualAlwaysFails ==
  \A left \in AllCompared : \A right \in AllCompared :
    (source = Comparison(left, "!=", right) /\ Done) =>
      /\ ~had_error
      /\ had_runtime_error
      /\ interpreter.out = <<>>
      /\ reported = "Unrecognized binary operator."
      /\ Len(interpreter.instances) = Created(left, right)

\* two instances were created for the operands before != failed
NotEqualAlwaysFailsWitness ==
  /\ source = Comparison(<<"C", "(", ")">>, "!=", <<"C", "(", ")">>)
  /\ Done /\ use_resolver
  /\ had_runtime_error
  /\ Len(interpreter.instances) = 2
  /\ reported = "Unrecognized binary operator."

\* the bookkeeping of the resolver is as Resolver::new left it
Balanced ==
  /\ resolver.scopes = <<>>
  /\ resolver.loop_depths = <<0>>
  /\ resolver.current_function = "NoFunction"
  /\ resolver.current_class = "NoClass"

\* C28: when resolve() returns Ok the scope stack is empty, the loop-depth
\* stack is [0], current_function is NoFunction and current_class is
\* NoClass; the innermost loop depth is never negative while the resolver
\* runs
ResolverBalanced ==
  /\ Accepted => Balanced
  /\ resolver.loop_depths # <<>> => Last(resolver.loop_depths) >= 0

\* the half of C28 about the programs the resolver accepts
AcceptedBalanced == Accepted => Balanced

\* a function body failed inside a loop and the loop took one from the depth
\* of the function
NegativeLoopDepth ==
  /\ source = BreakPlacement("function_in_loop")
  /\ Resolved /\ had_error
  /\ resolver.loop_depths = <<1, -1>>

\* C27: in a program the resolver accepted no call of a function, lambda or
\* method hands a Break to its caller, so a break executed in the callee
\* never ends a loop of the caller
BreakStaysInFunction ==
  Accepted => \A i \in Events("returned") : EventAt(i).name # "Break"

\* the callee left its own loop by break and returned; the loop of the caller
\* went on to print and was left by its own break
BreakStaysInFunctionWitness ==
  /\ Accepted /\ source = BreakInCallee /\ Done
  /\ ~had_runtime_error
  /\ interpreter.out = <<"1">>
  /\ Cardinality(Events("loop_break")) = 2
  /\ {EventAt(i).name : i \in Events("returned")} = {"Ok"}

MaxDistance == 2

\* current.assign_at(d, name, 2); the trace keeps the last call only
EnvAssignAt ==
  /\ pc < MaxCalls
  /\ \E n \in EnvNames, d \in 0..MaxDistance :
     \E r \in {env_assign_at(interpreter, interpreter.environment, d,
                             Token("Identifier", n, NoLiteral, 1), Assigned)} :
       /\ interpreter' =
            [r.it EXCEPT !.trace = <<Event("assign_at", n, d, pc)>>]
       /\ had_runtime_error' = (r.status # "Ok")
       /\ reported' = r.msg
  /\ pc' = pc + 1
  /\ UNCHANGED <<source, use_resolver, phase, tokens, statements, resolver,
                 had_error>>

\* current.get_at(d, name); the trace keeps the last call and what it read
EnvGetAt ==
  /\ pc < MaxCalls
  /\ \E n \in EnvNames, d \in 0..MaxDistance :
     \E r \in {env_get_at(interpreter, interpreter.environment, d, n)} :
       /\ interpreter' =
            [r.it EXCEPT !.trace = <<Event("get_at", n, d, pc),
                                     Event("read", n, 0, r.v.n)>>]
       /\ had_runtime_error' = (r.status # "Ok")
       /\ reported' = r.msg
  /\ pc' = pc + 1
  /\ UNCHANGED <<source, use_resolver, phase, tokens, statements, resolver,
                 had_error>>

EnvAtNext == EnvChild \/ EnvDefine \/ EnvAssignAt \/ EnvGetAt

EnvAtSpec == EnvInit /\ [][EnvAtNext]_vars

\* the step is a call of assign_at or of get_at
AtCalled(op) ==
  /\ interpreter'.trace # <<>>
  /\ interpreter'.trace[1].e = op
  /\ interpreter'.trace[1].b = pc

\* the scopes from the current one outwards, before the step
ScopeChain == Chain(interpreter.envs, interpreter.environment)

\* envs2 is envs with n bound to value in scope h, whether or not h bound n
Written(envs, envs2, h, n, value) ==
  /\ Len(envs2) = Len(envs)
  /\ \A k \in 1..Len(envs) : k # h => envs2[k] = envs[k]
  /\ envs2[h].enclosing = envs[h].enclosing
  /\ DOMAIN envs2[h].values = DOMAIN envs[h].values \cup {n}
  /\ envs2[h].values[n] = value
  /\ \A m \in DOMAIN envs[h].values :
       m # n => envs2[h].values[m] = envs[h].values[m]

\* the step of assign_at(d, n, 2): with more than d scopes in the chain the
\* scope d parents up binds n to 2 afterwards and every other scope and
\* every other name is as before; otherwise an error and no change
AssignAtStep(n, d) ==
  IF d < Len(ScopeChain)
    THEN /\ ~had_runtime_error'
         /\ Written(interpreter.envs, interpreter'.envs, ScopeChain[d + 1],
                    n, Assigned)
    ELSE /\ had_runtime_error'
         /\ reported' = "No ancestor environment at distance \""
                           \o NumStr(d) \o "\"."
         /\ interpreter'.envs = interpreter.envs

\* the step of get_at(d, n): nothing changes; the value is the one the scope
\* d parents up holds, and the call fails when that scope lacks n or when
\* there is no such scope
GetAtStep(n, d) ==
  /\ interpreter'.envs = interpreter.envs
  /\ IF d < Len(ScopeChain)
       THEN IF n \in DOMAIN interpreter.envs[ScopeChain[d + 1]].values
              THEN /\ ~had_runtime_error'
                   /\ interpreter'.trace[2].b =
                        interpreter.envs[ScopeChain[d + 1]].values[n].n
              ELSE /\ had_runtime_error'
                   /\ reported' =
                        "Environment::get_at - Undefined variable \"" \o n
                          \o "\" at distance: " \o NumStr(d) \o "."
       ELSE /\ had_runtime_error'
            /\ reported' = "No ancestor at distance \"" \o NumStr(d) \o "\"."

\* C30: assign_at(d, name, v) writes only into the scope exactly d parents
\* up, creating the binding when the scope lacks it, and leaves every other
\* scope alone; with fewer than d parents it fails and changes nothing;
\* get_at(d, name) reads only that scope and fails when the name is absent
\* there, even if an outer scope binds it
AtDistanceOnly ==
  [][/\ AtCalled("assign_at") =>
          AssignAtStep(interpreter'.trace[1].name, interpreter'.trace[1].a)
     /\ AtCalled("get_at") =>
          GetAtStep(interpreter'.trace[1].name, interpreter'.trace[1].a)]_vars

\* assign_at(1, a) has created a in the middle scope of three, whose inner and
\* outer scope bind nothing but clock; get_at(0, a) then failed
AtDistanceOnlyWitness ==
  /\ phase = "environment"
  /\ Len(interpreter.envs) = 3
  /\ interpreter.environment = 3
  /\ DOMAIN interpreter.envs[1].values = {"clock"}
  /\ DOMAIN interpreter.envs[2].values = {"a"}
  /\ interpreter.envs[2].values["a"] = Assigned
  /\ DOMAIN interpreter.envs[3].values = {}
  /\ interpreter.trace[1] = Event("get_at", "a", 0, 3)
  /\ had_runtime_error

====
